---------------------------- MODULE Spec2Model ----------------------------
(***************************************************************************)
(* Model of the host "big screen" client of the quiz game:                 *)
(*   src/static/js/room.js      the screen controller                      *)
(*   src/unnamed/part_000       the leaderboard renderer (lines 1-124) and *)
(*                              an earlier variant of the controller       *)
(*                                                                         *)
(* The controller runs in one UI thread.  Every action below is one task   *)
(* of the browser's event loop (an inbound socket frame, a socket event,   *)
(* a click, a fetch response, the end of an animation wait, an interval    *)
(* callback) together with the promise continuations (microtasks) that run *)
(* before the next task.                                                   *)
(*                                                                         *)
(* Conventions:                                                            *)
(*   - a JavaScript value is a record [t |-> tag, v |-> Int]; see JS values*)
(*   - timestamps are milliseconds; durations and delays, which the code   *)
(*     keeps in (fractional) seconds, are carried in thousandths of a      *)
(*     second, so that `duration * 1000` and `diffMs / 1000` stay integral *)
(*   - response times are carried in millionths of a second, the unit of   *)
(*     the 1e-6 tolerance of isSameTime                                    *)
(*   - a DOM boolean attribute is "tmpl" (as written in the HTML fragment, *)
(*     not yet touched by the script), "true" or "false"                   *)
(***************************************************************************)
EXTENDS Integers, Sequences, FiniteSets, TLC

(***************************************************************************)
(* Bounds of the model.                                                    *)
(***************************************************************************)
\* pending ensureState calls (async tasks) the model follows at once
MaxTasks == 2
\* steps of one second the local clock makes
MaxNow == 1
\* frames the page sends on the socket
MaxOutbox == 1
\* finite response times recorded per player
MaxCount == 2
\* frames the socket delivers
MaxFrames == 2

(***************************************************************************)
(* JS values.                                                              *)
(***************************************************************************)
Undef == [t |-> "undefined", v |-> 0]
Null == [t |-> "null", v |-> 0]
NaNv == [t |-> "nan", v |-> 0]
Num(n) == [t |-> "number", v |-> n]
\* a string that Date.parse accepts, standing for the instant v (ms)
Iso(ms) == [t |-> "iso", v |-> ms]
\* the empty string
EmptyStr == [t |-> "empty", v |-> 0]
\* a non-empty string that is neither a date nor a number; v identifies it
Str(k) == [t |-> "string", v |-> k]
\* a non-empty string that spells the number v (a data-* attribute)
NumStr(n) == [t |-> "numstr", v |-> n]

IsString(x) == x.t \in {"iso", "empty", "string", "numstr"}
Truthy(x) ==
  \/ x.t \in {"iso", "string", "numstr"}
  \/ x.t = "number" /\ x.v # 0
\* x ?? d
Coalesce(x, d) == IF x.t \in {"undefined", "null"} THEN d ELSE x
\* Number(x)
ToNumber(x) ==
  CASE x.t = "number" -> x
    [] x.t = "numstr" -> Num(x.v)
    [] x.t \in {"null", "empty"} -> Num(0)
    [] OTHER -> NaNv
\* Number.isFinite(x)
IsFiniteNumber(x) == x.t = "number"
\* Date.parse(x): a timestamp, or NaN
DateParse(x) == IF x.t = "iso" THEN Num(x.v) ELSE NaNv
\* new Date(ms).toISOString()
ToISOString(ms) == Iso(ms)

B(b) == IF b THEN "true" ELSE "false"

Min(a, b) == IF a <= b THEN a ELSE b
Max(a, b) == IF a >= b THEN a ELSE b
Abs(a) == IF a < 0 THEN -a ELSE a

(***************************************************************************)
(* Texts the script shows (the source has them in Russian).                *)
(***************************************************************************)
ErrNoConnection == "connection to the server is not established"
ErrConnectionLost == "connection to the server is lost"
ErrConnectionError == "a connection error occurred"
ErrDisplay == "could not display screen, try refreshing the page"
ErrUnknown == "unknown error"
\* the text of a server-sent error message: Str(k) is shown as is
ErrText(x) ==
  CASE x.t = "string" -> IF x.v = 1 THEN "server error 1" ELSE "server error"
    [] x.t = "empty" -> ""
    [] x.t = "iso" -> "a date"
    [] x.t = "numstr" -> "a number"
    [] x.t = "number" -> "a number"
    [] OTHER -> "NaN"

Screens == {"lobby", "question", "final"}
NoScreen == "null"

VARIABLES
  templateCache,        \* Map state -> html: a function on the cached screens
  prefetch,             \* the fetches of the initialisation still pending
  currentState,
  socket,               \* "null", or the WebSocket's readyState
  gameInProgress,
  players,
  lastQuestionContext,
  responseStats,        \* Map player -> stats: a function on the players seen
  serverClock,          \* [offset]
  now,                  \* Date.now()
  countdownTimer,       \* [timerId, endTime, element]
  intervals,            \* live window.setInterval timers
  autoStartState,
  container,            \* children of #game-screen: the mounted fragments
  lobbyDom,             \* elements of the mounted .lobby-screen
  questionDom,          \* elements of the mounted .question-screen
  finalDom,             \* elements of the mounted .final-screen
  roomError,            \* [text, hidden] of #room-error
  tasks,                \* pending safeEnsureState calls
  outbox,               \* frames sent on the socket
  uncaught,             \* an exception escaped a handler
  received,             \* frames the socket has delivered
  last                  \* the frame delivered last, and the one before it;
                        \* fresh until another task of the event loop runs

vars ==
  <<templateCache, prefetch, currentState, socket, gameInProgress, players,
    lastQuestionContext, responseStats, serverClock, now, countdownTimer,
    intervals, autoStartState, container, lobbyDom, questionDom, finalDom,
    roomError, tasks, outbox, uncaught, received, last>>

\* the controller's state as one record, which the handlers below transform
St ==
  [templateCache |-> templateCache, prefetch |-> prefetch,
   currentState |-> currentState, socket |-> socket,
   gameInProgress |-> gameInProgress, players |-> players,
   lastQuestionContext |-> lastQuestionContext,
   responseStats |-> responseStats, serverClock |-> serverClock, now |-> now,
   countdownTimer |-> countdownTimer, intervals |-> intervals,
   autoStartState |-> autoStartState, container |-> container,
   lobbyDom |-> lobbyDom, questionDom |-> questionDom, finalDom |-> finalDom,
   roomError |-> roomError, tasks |-> tasks,
   outbox |-> outbox, uncaught |-> uncaught]

Commit(n) ==
  /\ templateCache' = n.templateCache
  /\ prefetch' = n.prefetch
  /\ currentState' = n.currentState
  /\ socket' = n.socket
  /\ gameInProgress' = n.gameInProgress
  /\ players' = n.players
  /\ lastQuestionContext' = n.lastQuestionContext
  /\ responseStats' = n.responseStats
  /\ serverClock' = n.serverClock
  /\ now' = n.now
  /\ countdownTimer' = n.countdownTimer
  /\ intervals' = n.intervals
  /\ autoStartState' = n.autoStartState
  /\ container' = n.container
  /\ lobbyDom' = n.lobbyDom
  /\ questionDom' = n.questionDom
  /\ finalDom' = n.finalDom
  /\ roomError' = n.roomError
  /\ tasks' = n.tasks
  /\ outbox' = n.outbox
  /\ uncaught' = n.uncaught

Begin(n) ==
  /\ templateCache = n.templateCache
  /\ prefetch = n.prefetch
  /\ currentState = n.currentState
  /\ socket = n.socket
  /\ gameInProgress = n.gameInProgress
  /\ players = n.players
  /\ lastQuestionContext = n.lastQuestionContext
  /\ responseStats = n.responseStats
  /\ serverClock = n.serverClock
  /\ now = n.now
  /\ countdownTimer = n.countdownTimer
  /\ intervals = n.intervals
  /\ autoStartState = n.autoStartState
  /\ container = n.container
  /\ lobbyDom = n.lobbyDom
  /\ questionDom = n.questionDom
  /\ finalDom = n.finalDom
  /\ roomError = n.roomError
  /\ tasks = n.tasks
  /\ outbox = n.outbox
  /\ uncaught = n.uncaught

(***************************************************************************)
(* serverClock (room.js 45-61).                                            *)
(***************************************************************************)
\* sync taking the mean of the previous offset and the new one
ServerClockSyncAveraging(s, serverTimeIso) ==
  IF ~Truthy(serverTimeIso)
  THEN s
  ELSE LET serverTimestamp == DateParse(serverTimeIso)
       IN IF serverTimestamp.t = "nan"
          THEN s
          ELSE [s EXCEPT !.serverClock.offset =
                           (@ + serverTimestamp.v - s.now) \div 2]

ServerClockSync(s, serverTimeIso) ==
  IF ~Truthy(serverTimeIso)
  THEN s
  ELSE LET serverTimestamp == DateParse(serverTimeIso)
       IN IF serverTimestamp.t = "nan"
          THEN s
          ELSE [s EXCEPT !.serverClock.offset = serverTimestamp.v - s.now]

ServerClockNow(s) == s.now + s.serverClock.offset

(***************************************************************************)
(* The error banner (room.js 987-1001).                                    *)
(***************************************************************************)
ShowError(s, message) ==
  [s EXCEPT !.roomError = [text |-> message, hidden |-> (message = "")]]

HideError(s) == [s EXCEPT !.roomError = [text |-> "", hidden |-> TRUE]]

(***************************************************************************)
(* The countdown element.  countdownTimer.element is "null", the timer     *)
(* element of the mounted lobby or question fragment ("lobby", "question") *)
(* or an element of a fragment that has left the document ("lobby-gone",   *)
(* "question-gone"): writes to the latter are not visible.                 *)
(***************************************************************************)
TimerText(totalSeconds) == <<totalSeconds \div 60, totalSeconds % 60>>
ZeroText == TimerText(0)
TmplText == <<-1, -1>>

TimerEl(s, el) ==
  IF el = "lobby"
  THEN [hidden |-> s.lobbyDom.timerHidden, text |-> s.lobbyDom.timerText,
        warning |-> s.lobbyDom.timerWarn]
  ELSE [hidden |-> s.questionDom.timerHidden, text |-> s.questionDom.timerText,
        warning |-> s.questionDom.timerWarn]

PutTimerEl(s, el, e) ==
  CASE el = "lobby" ->
         [s EXCEPT !.lobbyDom.timerHidden = e.hidden,
                   !.lobbyDom.timerText = e.text,
                   !.lobbyDom.timerWarn = e.warning]
    [] el = "question" ->
         [s EXCEPT !.questionDom.timerHidden = e.hidden,
                   !.questionDom.timerText = e.text,
                   !.questionDom.timerWarn = e.warning]
    [] OTHER -> s

(***************************************************************************)
(* countdownTimer (room.js 63-133).                                        *)
(***************************************************************************)
CancelTimer(s) ==
  IF s.countdownTimer.timerId # "null"
  THEN [s EXCEPT !.intervals = @ - 1, !.countdownTimer.timerId = "null"]
  ELSE s

CeilDiv(a, b) == (a + b - 1) \div b

\* render leaving the interval alive when the countdown is over
RenderWithoutStop(s) ==
  LET el == s.countdownTimer.element
      endTime == s.countdownTimer.endTime
  IN IF el = "null" \/ endTime = 0
     THEN CancelTimer(s)
     ELSE LET remaining == endTime - (s.now + s.serverClock.offset)
              totalSeconds == IF remaining <= 0 THEN 0
                              ELSE (remaining + 999) \div 1000
          IN PutTimerEl(s, el,
               [TimerEl(s, el) EXCEPT !.text = TimerText(totalSeconds),
                                      !.warning = B(totalSeconds <= 10)])

Render(s) ==
  LET el == s.countdownTimer.element
      endTime == s.countdownTimer.endTime
  IN IF el = "null" \/ endTime = 0
     THEN CancelTimer(s)
     ELSE LET remaining == endTime - ServerClockNow(s)
          IN IF remaining <= 0
             THEN CancelTimer(PutTimerEl(s, el,
                    [TimerEl(s, el) EXCEPT !.text = ZeroText,
                                           !.warning = "true"]))
             ELSE LET totalSeconds == Max(0, CeilDiv(remaining, 1000))
                  IN PutTimerEl(s, el,
                       [TimerEl(s, el) EXCEPT
                          !.text = TimerText(totalSeconds),
                          !.warning = B(totalSeconds <= 10)])

CountdownClear(s) ==
  LET s1 == CancelTimer(s)
      s2 == [s1 EXCEPT !.countdownTimer.endTime = 0]
      el == s2.countdownTimer.element
      s3 == IF el # "null"
            THEN PutTimerEl(s2, el,
                   [hidden |-> "true", text |-> ZeroText, warning |-> "false"])
            ELSE s2
  IN [s3 EXCEPT !.countdownTimer.element = "null"]

\* start installing its interval without cancelling the running one
CountdownStartUncancelled(s, targetElement, startIso, durationSeconds) ==
  LET s1 == [s EXCEPT !.countdownTimer.element = targetElement]
      start == DateParse(startIso)
      duration == ToNumber(durationSeconds)
  IN IF targetElement = "null"
     THEN CountdownClear(s1)
     ELSE IF start.t = "nan" \/ duration.t = "nan" \/ duration.v <= 0
     THEN CountdownClear(s1)
     ELSE LET s2 == [s1 EXCEPT !.countdownTimer.endTime = start.v + duration.v]
              s3 == PutTimerEl(s2, targetElement,
                      [TimerEl(s2, targetElement) EXCEPT
                         !.hidden = "false", !.warning = "false"])
          IN [Render(s3) EXCEPT !.intervals = @ + 1,
                                !.countdownTimer.timerId = "set"]

\* start returning on a malformed input without clearing the timer
CountdownStartUncleared(s, targetElement, startIso, durationSeconds) ==
  LET s1 == [s EXCEPT !.countdownTimer.element = targetElement]
      start == DateParse(startIso)
      duration == ToNumber(durationSeconds)
  IN IF targetElement = "null"
     THEN s1
     ELSE IF start.t = "nan" \/ duration.t = "nan" \/ duration.v <= 0
     THEN s1
     ELSE LET s2 == [s1 EXCEPT !.countdownTimer.endTime = start.v + duration.v]
              s3 == PutTimerEl(s2, targetElement,
                      [TimerEl(s2, targetElement) EXCEPT
                         !.hidden = "false", !.warning = "false"])
              s4 == Render(CancelTimer(s3))
          IN [s4 EXCEPT !.intervals = @ + 1, !.countdownTimer.timerId = "set"]

CountdownStart(s, targetElement, startIso, durationSeconds) ==
  LET s1 == [s EXCEPT !.countdownTimer.element = targetElement]
      start == DateParse(startIso)
      duration == ToNumber(durationSeconds)
  IN IF targetElement = "null"
     THEN CountdownClear(s1)
     ELSE IF start.t = "nan" \/ duration.t = "nan" \/ duration.v <= 0
     THEN CountdownClear(s1)
     ELSE LET s2 == [s1 EXCEPT !.countdownTimer.endTime = start.v + duration.v]
              s3 == PutTimerEl(s2, targetElement,
                      [TimerEl(s2, targetElement) EXCEPT
                         !.hidden = "false", !.warning = "false"])
              s4 == Render(CancelTimer(s3))
          IN [s4 EXCEPT !.intervals = @ + 1, !.countdownTimer.timerId = "set"]

(***************************************************************************)
(* Auto-start (room.js 135-362).  A text is [k |-> kind, v |-> Int].       *)
(***************************************************************************)
Txt(k, v) == [k |-> k, v |-> v]
NoText == Txt("", 0)
TmplMessage == Txt("tmpl", 0)
CancelledGeneric == Txt("auto-start cancelled", 0)
TriggeredMessage == Txt("the game starts automatically", 0)
ScheduledByTimer == Txt("the game starts automatically by timer", 0)

\* the keys of AUTO_START_REASON_MESSAGES: Str(1) is "manual_start", Str(2)
\* "host_cancelled", Str(3) "quiz_not_selected", Str(4) "load_failed",
\* Str(5) "empty_quiz", Str(6) "unexpected_error"
ReasonKeys == {1, 2, 3, 4, 5, 6}
HostCancelled == Str(2)

\* canUseSocket without the test of the readyState
CanUseSocketUnchecked(s) == TRUE

CanUseSocket(s) == s.socket = "OPEN"

BuildAutoStartCancellationMessage(reason) ==
  IF ~IsString(reason) \/ reason.t = "empty"
  THEN CancelledGeneric
  ELSE IF reason.t = "string" /\ reason.v \in ReasonKeys
       THEN Txt("auto-start cancelled, reason", reason.v)
       ELSE CancelledGeneric

\* the hour and minute of the instant, by Intl.DateTimeFormat
FormatAutoStartScheduledMessage(scheduledAt) ==
  IF ~IsString(scheduledAt) \/ ~Truthy(scheduledAt)
  THEN ScheduledByTimer
  ELSE LET timestamp == DateParse(scheduledAt)
       IN IF timestamp.t = "nan"
          THEN ScheduledByTimer
          ELSE Txt("the game starts automatically at", timestamp.v \div 60000)

\* timerEl is the countdown element of the mounted lobby
StartAutoStartCountdown(s) ==
  LET scheduledAt == s.autoStartState.scheduledAt
      delay == s.autoStartState.delay
      s1 == [s EXCEPT !.lobbyDom.timerWarn = "false"]
      off(x) == [CountdownClear(x) EXCEPT !.lobbyDom.timerHidden = "true",
                                          !.lobbyDom.timerText = ZeroText]
      scheduledTimestamp == DateParse(scheduledAt)
      durationSeconds ==
        IF delay.t = "number" /\ delay.v >= 0
        THEN delay.v
        ELSE Max(0, scheduledTimestamp.v - ServerClockNow(s1))
  IN IF ~IsString(scheduledAt) \/ ~Truthy(scheduledAt)
     THEN off(s1)
     ELSE IF scheduledTimestamp.t = "nan"
     THEN off(s1)
     ELSE IF durationSeconds <= 500
     THEN [CountdownClear(s1) EXCEPT !.lobbyDom.timerHidden = "false",
                                     !.lobbyDom.timerText = ZeroText,
                                     !.lobbyDom.timerWarn = "true"]
     ELSE CountdownStart(s1, "lobby",
            ToISOString(scheduledTimestamp.v - durationSeconds),
            Num(durationSeconds))

\* the start control following the roster alone
StartDisabledByRoster(s) == B(Len(s.players) = 0)

StartDisabled(s) == B(s.gameInProgress \/ Len(s.players) = 0)

\* root is the mounted lobby
ApplyAutoStartUi(s) ==
  LET status == s.autoStartState.status
      s1 ==
        IF status = "scheduled"
        THEN LET a == [s EXCEPT
                         !.lobbyDom.msgText =
                           FormatAutoStartScheduledMessage(
                             s.autoStartState.scheduledAt),
                         !.lobbyDom.msgHidden = "false"]
                 b == StartAutoStartCountdown(a)
             IN [b EXCEPT !.lobbyDom.cancelHidden = "false",
                          !.lobbyDom.cancelDisabled = B(~CanUseSocket(b))]
        ELSE LET a == [CountdownClear(s) EXCEPT
                         !.lobbyDom.timerHidden = "true",
                         !.lobbyDom.timerWarn = "false",
                         !.lobbyDom.timerText = ZeroText]
                 b == [a EXCEPT !.lobbyDom.cancelHidden = "true",
                                !.lobbyDom.cancelDisabled = "false"]
                 shown == /\ status \in {"cancelled", "triggered"}
                          /\ s.autoStartState.message # NoText
             IN [b EXCEPT
                   !.lobbyDom.msgText =
                     IF shown THEN s.autoStartState.message ELSE NoText,
                   !.lobbyDom.msgHidden = B(~shown)]
  IN [s1 EXCEPT !.lobbyDom.startDisabled = StartDisabled(s1)]

LobbyMounted(s) == \E i \in 1..Len(s.container) : s.container[i] = "lobby"

RefreshLobbyAutoStartUi(s) ==
  IF LobbyMounted(s) THEN ApplyAutoStartUi(s) ELSE s

SetAutoStartScheduled(s, payload, skipRender) ==
  LET s1 == CountdownClear(ServerClockSync(s, payload.server_time))
      parsedDelay == ToNumber(payload.delay)
      s2 == [s1 EXCEPT
               !.autoStartState =
                 [status |-> "scheduled",
                  scheduledAt |->
                    IF IsString(payload.scheduled_at)
                       /\ Truthy(payload.scheduled_at)
                    THEN payload.scheduled_at ELSE Null,
                  delay |->
                    IF parsedDelay.t = "number" /\ parsedDelay.v >= 0
                    THEN parsedDelay ELSE Null,
                  origin |-> Coalesce(payload.origin, Null),
                  message |-> NoText]]
  IN IF skipRender THEN s2 ELSE RefreshLobbyAutoStartUi(s2)

\* setAutoStartCancelled ignoring the event unless a start is scheduled
SetAutoStartCancelledGuarded(s, payload) ==
  IF s.autoStartState.status # "scheduled"
  THEN s
  ELSE LET s1 == CountdownClear(ServerClockSync(s, payload.server_time))
       IN RefreshLobbyAutoStartUi(
            [s1 EXCEPT
               !.autoStartState =
                 [status |-> "cancelled", scheduledAt |-> Null,
                  delay |-> Null, origin |-> Coalesce(payload.origin, Null),
                  message |->
                    BuildAutoStartCancellationMessage(payload.reason)]])

SetAutoStartCancelled(s, payload) ==
  LET s1 == CountdownClear(ServerClockSync(s, payload.server_time))
  IN RefreshLobbyAutoStartUi(
       [s1 EXCEPT
          !.autoStartState =
            [status |-> "cancelled", scheduledAt |-> Null, delay |-> Null,
             origin |-> Coalesce(payload.origin, Null),
             message |-> BuildAutoStartCancellationMessage(payload.reason)]])

SetAutoStartTriggered(s, payload) ==
  LET s1 == CountdownClear(ServerClockSync(s, payload.server_time))
  IN RefreshLobbyAutoStartUi(
       [s1 EXCEPT
          !.autoStartState =
            [status |-> "triggered", scheduledAt |-> Null, delay |-> Null,
             origin |-> Coalesce(payload.origin, Null),
             message |-> TriggeredMessage]])

IdleAutoStart ==
  [status |-> "idle", scheduledAt |-> Null, delay |-> Null, origin |-> Null,
   message |-> NoText]

\* resetAutoStartState resetting the status alone
ResetAutoStartStateStatusOnly(s) ==
  IF s.autoStartState.status = "idle"
  THEN s
  ELSE RefreshLobbyAutoStartUi([s EXCEPT !.autoStartState.status = "idle"])

\* resetAutoStartState without the refresh of the lobby
ResetAutoStartStateUnrendered(s) ==
  IF s.autoStartState.status = "idle"
  THEN s
  ELSE [s EXCEPT !.autoStartState = IdleAutoStart]

ResetAutoStartState(s) ==
  IF s.autoStartState.status = "idle"
  THEN s
  ELSE RefreshLobbyAutoStartUi([s EXCEPT !.autoStartState = IdleAutoStart])

\* socket.send(frame)
SocketSend(s, frame) == [s EXCEPT !.outbox = Append(@, frame)]

\* handleCancelAutoStart taking the cancellation for granted
HandleCancelAutoStartOptimistic(s) ==
  IF ~CanUseSocket(s)
  THEN ShowError(s, ErrNoConnection)
  ELSE SetAutoStartCancelled(
         SocketSend(HideError(s), "cancel_auto_start"),
         [reason |-> HostCancelled, origin |-> Undef, server_time |-> Undef])

HandleCancelAutoStart(s) ==
  IF ~CanUseSocket(s)
  THEN ShowError(s, ErrNoConnection)
  ELSE SocketSend(HideError(s), "cancel_auto_start")

\* hideGlobalAutoStartBlock (room.js 21-35).  The [data-section="auto-start"]
\* block is the one of the lobby fragment, which holds the message, the
\* countdown and the cancel control that applyAutoStartUi looks up; it is in
\* the document while the lobby is mounted.
HideGlobalAutoStartBlock(s) ==
  IF LobbyMounted(s)
  THEN [s EXCEPT !.lobbyDom.sectionHidden = "true",
                 !.lobbyDom.msgHidden = "true",
                 !.lobbyDom.timerHidden = "true",
                 !.lobbyDom.cancelHidden = "true"]
  ELSE s

(***************************************************************************)
(* Formatting and the response-time statistics (room.js 382-572).          *)
(* A formatted time is [k |-> "dash"] or [k |-> "seconds", v, d]: the      *)
(* number v / 10^d with d decimals, followed by the unit.                  *)
(***************************************************************************)
Dash == [k |-> "dash", v |-> 0, d |-> 0]
Seconds(v, d) == [k |-> "seconds", v |-> v, d |-> d]

\* value.toFixed(0) and value.toFixed(1) of a time in millionths of a second
ToFixed0(v) == IF v >= 0 THEN (v + 500000) \div 1000000
               ELSE -(((-v) + 500000) \div 1000000)
ToFixed1(v) == IF v >= 0 THEN (v + 50000) \div 100000
               ELSE -(((-v) + 50000) \div 100000)

FormatSeconds(value, emptyAsDash) ==
  IF value.t # "number"
  THEN IF emptyAsDash THEN Dash ELSE Seconds(0, 1)
  ELSE IF value.v >= 100000000
       THEN Seconds(ToFixed0(value.v), 0)
       ELSE Seconds(ToFixed1(value.v), 1)

IsSameTime(a, b) ==
  /\ a.t = "number"
  /\ b.t = "number"
  /\ Abs(a.v - b.v) <= 1

\* responseStats is a Map: its entries in insertion order
StatsIndex(stats, player) ==
  IF \E i \in 1..Len(stats) : stats[i].player = player
  THEN CHOOSE i \in 1..Len(stats) : stats[i].player = player
  ELSE 0

EnsurePlayerStats(stats, player) ==
  IF StatsIndex(stats, player) = 0
  THEN Append(stats, [player |-> player, count |-> 0, total |-> 0,
                      best |-> Null, worst |-> Null])
  ELSE stats

AddUnique(seq, x) ==
  IF \E i \in 1..Len(seq) : seq[i] = x THEN seq ELSE Append(seq, x)

Contains(seq, x) == \E i \in 1..Len(seq) : seq[i] = x

\* the iteration of updateResponseStats keeping the first time as the best
UpdateOneFirstBest(acc, item) ==
  LET time == ToNumber(item.response_time)
  IN IF time.t # "number"
     THEN acc
     ELSE LET st1 == EnsurePlayerStats(acc.stats, item.player)
              i == StatsIndex(st1, item.player)
              old == st1[i]
              new == [old EXCEPT
                        !.count = @ + 1,
                        !.total = @ + time.v,
                        !.best = IF old.best.t = "null" THEN time ELSE @,
                        !.worst = IF old.worst.t = "null" THEN time
                                  ELSE Num(Max(old.worst.v, time.v))]
          IN [acc EXCEPT !.stats = [st1 EXCEPT ![i] = new]]

\* one iteration of results.forEach in updateResponseStats; acc is
\* [stats, bestTime, bestPlayers]
UpdateOne(acc, item) ==
  LET time == ToNumber(item.response_time)
  IN IF time.t # "number"
     THEN acc
     ELSE LET st1 == EnsurePlayerStats(acc.stats, item.player)
              i == StatsIndex(st1, item.player)
              old == st1[i]
              new == [old EXCEPT
                        !.count = @ + 1,
                        !.total = @ + time.v,
                        !.best = IF old.best.t = "null" THEN time
                                 ELSE Num(Min(old.best.v, time.v)),
                        !.worst = IF old.worst.t = "null" THEN time
                                  ELSE Num(Max(old.worst.v, time.v))]
              st2 == [st1 EXCEPT ![i] = new]
          IN IF acc.bestTime.t = "null" \/ time.v < acc.bestTime.v - 1
             THEN [stats |-> st2, bestTime |-> time,
                   bestPlayers |-> <<item.player>>]
             ELSE IF IsSameTime(time, acc.bestTime)
             THEN [stats |-> st2, bestTime |-> acc.bestTime,
                   bestPlayers |-> AddUnique(acc.bestPlayers, item.player)]
             ELSE [stats |-> st2, bestTime |-> acc.bestTime,
                   bestPlayers |-> acc.bestPlayers]

RECURSIVE UpdateFold(_, _, _)
UpdateFold(acc, results, i) ==
  IF i > Len(results) THEN acc
  ELSE UpdateFold(UpdateOne(acc, results[i]), results, i + 1)

\* updateResponseStats recording nothing
UpdateResponseStatsIdle(stats, results) ==
  [stats |-> stats, bestTime |-> Null, bestPlayers |-> <<>>]

UpdateResponseStats(stats, results) ==
  UpdateFold([stats |-> stats, bestTime |-> Null, bestPlayers |-> <<>>],
             results, 1)

\* fastest is [player, value, players]; value Null stands for fastest = null,
\* players <<>> for a fastest without the players field
NoFastest == [player |-> "", value |-> Null, players |-> <<>>]

FastestOne(fastest, item) ==
  IF item.best.t # "number"
  THEN fastest
  ELSE IF fastest.value.t = "null" \/ item.best.v < fastest.value.v - 1
  THEN [player |-> item.player, value |-> item.best, players |-> <<>>]
  ELSE IF IsSameTime(item.best, fastest.value)
  THEN [fastest EXCEPT
          !.players = AddUnique(IF @ = <<>> THEN <<fastest.player>> ELSE @,
                                item.player)]
  ELSE fastest

RECURSIVE FastestFold(_, _, _)
FastestFold(fastest, perPlayer, i) ==
  IF i > Len(perPlayer) THEN fastest
  ELSE FastestFold(FastestOne(fastest, perPlayer[i]), perPlayer, i + 1)

\* averages are cut to the millionth of a second
Average(total, count) == IF count # 0 THEN Num(total \div count) ELSE Null

BuildTimingSummary(stats) ==
  LET perPlayer ==
        [i \in 1..Len(stats) |->
           [player |-> stats[i].player, count |-> stats[i].count,
            total |-> stats[i].total,
            average |-> Average(stats[i].total, stats[i].count),
            best |-> stats[i].best, worst |-> stats[i].worst]]
  IN [perPlayer |-> perPlayer, fastest |-> FastestFold(NoFastest, perPlayer, 1)]

NoSummary == [perPlayer |-> <<>>, fastest |-> NoFastest]

\* enhanceEntry flagging the responders the summary names and no other
EnhanceEntryNamedOnly(stats, summary, entry) ==
  LET fastestValue == summary.fastest.value
      fastestCandidates ==
        {summary.fastest.players[k] : k \in 1..Len(summary.fastest.players)}
          \cup (IF summary.fastest.value.t = "null" THEN {}
                ELSE {summary.fastest.player})
      i == StatsIndex(stats, entry.player)
      st == IF i # 0
            THEN [count |-> Num(stats[i].count), total |-> Num(stats[i].total),
                  best |-> stats[i].best, worst |-> stats[i].worst]
            ELSE [count |-> Coalesce(entry.answered_count, Num(0)),
                  total |-> Coalesce(entry.total_response_time, Num(0)),
                  best |-> Null, worst |-> Null]
      count == IF st.count.t = "number" THEN st.count.v ELSE 0
      total == IF st.total.t = "number" THEN st.total.v ELSE 0
      best == IF st.best.t = "number" THEN st.best ELSE Null
      worst == IF st.worst.t = "number" THEN st.worst ELSE Null
      hasRecord ==
        /\ best.t # "null"
        /\ fastestValue.t = "number"
        /\ entry.player \in fastestCandidates
  IN [player |-> entry.player, score |-> entry.score,
      answered_count |-> Num(count), total_response_time |-> Num(total),
      average_response_time |-> Average(total, count),
      best_response_time |-> best, worst_response_time |-> worst,
      has_fastest_record |-> hasRecord]

EnhanceEntry(stats, summary, entry) ==
  LET fastestValue == summary.fastest.value
      fastestCandidates ==
        {summary.fastest.players[k] : k \in 1..Len(summary.fastest.players)}
          \cup (IF summary.fastest.value.t = "null" THEN {}
                ELSE {summary.fastest.player})
      i == StatsIndex(stats, entry.player)
      st == IF i # 0
            THEN [count |-> Num(stats[i].count), total |-> Num(stats[i].total),
                  best |-> stats[i].best, worst |-> stats[i].worst]
            ELSE [count |-> Coalesce(entry.answered_count, Num(0)),
                  total |-> Coalesce(entry.total_response_time, Num(0)),
                  best |-> Null, worst |-> Null]
      count == IF st.count.t = "number" THEN st.count.v ELSE 0
      total == IF st.total.t = "number" THEN st.total.v ELSE 0
      best == IF st.best.t = "number" THEN st.best ELSE Null
      worst == IF st.worst.t = "number" THEN st.worst ELSE Null
      hasRecord ==
        /\ best.t # "null"
        /\ fastestValue.t = "number"
        /\ (IsSameTime(best, fastestValue)
              \/ entry.player \in fastestCandidates)
  IN [player |-> entry.player, score |-> entry.score,
      answered_count |-> Num(count), total_response_time |-> Num(total),
      average_response_time |-> Average(total, count),
      best_response_time |-> best, worst_response_time |-> worst,
      has_fastest_record |-> hasRecord]

EnhanceScoreboard(stats, scoreboard, summary) ==
  [i \in 1..Len(scoreboard) |-> EnhanceEntry(stats, summary, scoreboard[i])]

\* the flag of a result set on equality with the fastest time alone
EnhanceResultExact(item, bestTime, bestPlayers) ==
  LET responseTime == ToNumber(item.response_time)
      finite == responseTime.t = "number"
  IN [player |-> item.player,
      response_time |-> IF finite THEN responseTime ELSE Null,
      response_time_formatted |->
        IF finite THEN FormatSeconds(responseTime, TRUE) ELSE Dash,
      is_fastest |-> finite /\ responseTime = bestTime]

EnhanceResult(item, bestTime, bestPlayers) ==
  LET responseTime == ToNumber(item.response_time)
      finite == responseTime.t = "number"
  IN [player |-> item.player,
      response_time |-> IF finite THEN responseTime ELSE Null,
      response_time_formatted |->
        IF finite THEN FormatSeconds(responseTime, TRUE) ELSE Dash,
      is_fastest |->
        finite /\ (Contains(bestPlayers, item.player)
                     \/ IsSameTime(responseTime, bestTime))]

\* the payload with its results and scoreboard enriched, and the statistics
\* after the update: [data, stats]
PrepareResultsPayload(stats, payload) ==
  LET upd == UpdateResponseStats(stats, payload.results)
      summary == BuildTimingSummary(upd.stats)
  IN [stats |-> upd.stats,
      data |-> [payload EXCEPT
                  !.has_results = TRUE,
                  !.results =
                    [i \in 1..Len(payload.results) |->
                       EnhanceResult(payload.results[i], upd.bestTime,
                                     upd.bestPlayers)],
                  !.results_fastest_time = upd.bestTime,
                  !.scoreboard =
                    EnhanceScoreboard(upd.stats, payload.scoreboard, summary),
                  !.timing_summary = summary]]

PrepareFinalPayload(stats, payload) ==
  LET summary == BuildTimingSummary(stats)
  IN [payload EXCEPT
        !.scoreboard = EnhanceScoreboard(stats, payload.scoreboard, summary),
        !.timing_summary = summary]

(***************************************************************************)
(* Payloads.  A payload has every field; an absent field is Undef, an      *)
(* absent list <<>> (the code reads lists as `x || []`), an absent         *)
(* question 0.  A missing payload behaves as the empty one (`payload ||    *)
(* {}`, `payload?.x`).                                                     *)
(***************************************************************************)
EmptyPayload ==
  [players |-> <<>>, question |-> 0, question_number |-> Undef,
   question_started_at |-> Undef, question_duration |-> Undef,
   server_time |-> Undef, has_results |-> FALSE, results |-> <<>>,
   scoreboard |-> <<>>, scheduled_at |-> Undef, delay |-> Undef,
   origin |-> Undef, reason |-> Undef, message |-> Undef,
   results_fastest_time |-> Undef, timing_summary |-> NoSummary]

NoFormat == [k |-> "undefined", v |-> 0, d |-> 0]

\* a result and a scoreboard entry as the server sends them
Result(player, responseTime) ==
  [player |-> player, response_time |-> responseTime,
   response_time_formatted |-> NoFormat, is_fastest |-> FALSE]

Entry(player, score, totalTime) ==
  [player |-> player, score |-> score, answered_count |-> Undef,
   total_response_time |-> totalTime, average_response_time |-> Undef,
   best_response_time |-> Undef, worst_response_time |-> Undef,
   has_fastest_record |-> FALSE]

(***************************************************************************)
(* The leaderboard (part_000 1-124).                                       *)
(***************************************************************************)
\* toNumber and toTime
LbToNumber(value) ==
  LET numeric == ToNumber(value)
  IN IF numeric.t = "number" THEN numeric.v ELSE 0

LbToTime(value) ==
  LET numeric == ToNumber(value)
  IN IF numeric.t = "number" THEN numeric ELSE Null

\* formatPoints without the case of 11 to 19
FormatPointsByLastDigit(value) ==
  LET score == LbToNumber(value)
      abs == Abs(score) % 100
      lastDigit == abs % 10
  IN IF lastDigit = 1 THEN <<score, "ochko">>
     ELSE IF lastDigit >= 2 /\ lastDigit <= 4 THEN <<score, "ochka">>
     ELSE <<score, "ochkov">>

\* the form of the word after the score: "ochko", "ochka" or "ochkov"
FormatPoints(value) ==
  LET score == LbToNumber(value)
      abs == Abs(score) % 100
      lastDigit == abs % 10
  IN IF abs > 10 /\ abs < 20 THEN <<score, "ochkov">>
     ELSE IF lastDigit = 1 THEN <<score, "ochko">>
     ELSE IF lastDigit >= 2 /\ lastDigit <= 4 THEN <<score, "ochka">>
     ELSE <<score, "ochkov">>

FormatTime(value) ==
  LET time == LbToTime(value)
  IN IF time.t = "null" THEN Dash
     ELSE IF time.v >= 100000000 THEN Seconds(ToFixed0(time.v), 0)
     ELSE Seconds(ToFixed1(time.v), 1)

\* a medal for the first three places, the place number after them
GetPositionLabel(index) ==
  IF index < 3 THEN <<"medal", index + 1>> ELSE <<"place", index + 1>>

\* the comparison function of sortEntries: negative when a comes first
CompareEntries(a, b) ==
  LET scoreA == LbToNumber(Num(a.score))
      scoreB == LbToNumber(Num(b.score))
      timeA == LbToTime(a.total_response_time)
      timeB == LbToTime(b.total_response_time)
  IN IF scoreA # scoreB THEN scoreB - scoreA
     ELSE IF timeA.t = "null" /\ timeB.t = "null" THEN 0
     ELSE IF timeA.t = "null" THEN 1
     ELSE IF timeB.t = "null" THEN -1
     ELSE timeA.v - timeB.v

\* Array.prototype.sort is stable: x goes after the entries it does not
\* precede
RECURSIVE InsertSorted(_, _)
InsertSorted(sorted, x) ==
  IF sorted = <<>> THEN <<x>>
  ELSE LET n == Len(sorted)
       IN IF CompareEntries(sorted[n], x) <= 0
          THEN Append(sorted, x)
          ELSE Append(InsertSorted(SubSeq(sorted, 1, n - 1), x), sorted[n])

RECURSIVE SortFrom(_, _, _)
SortFrom(sorted, entries, i) ==
  IF i > Len(entries) THEN sorted
  ELSE SortFrom(InsertSorted(sorted, entries[i]), entries, i + 1)

\* the array passed to sortEntries as the call leaves it: [...entries] hands
\* a copy to sort
SortArgument(entries) == entries

SortEntries(entries) == SortFrom(<<>>, entries, 1)

BuildItem(entry, index) ==
  [record |-> entry.has_fastest_record,
   position |-> GetPositionLabel(index),
   name |-> entry.player,
   points |-> FormatPoints(Num(entry.score)),
   time |-> FormatTime(entry.total_response_time)]

\* render appending to the rows the list element holds
LeaderboardRenderAppending(listElement, entries) ==
  LET sorted == SortEntries(entries)
  IN listElement \o [i \in 1..Len(sorted) |-> BuildItem(sorted[i], i - 1)]

\* Leaderboard.render(listElement, entries), listElement being the rows of
\* an existing list element: the rows it holds afterwards.  innerHTML = ""
\* empties it, then one row per sorted entry is appended.
LeaderboardRender(listElement, entries) ==
  LET cleared == <<>>
      sorted == SortEntries(entries)
  IN IF entries = <<>>
     THEN cleared
     ELSE cleared \o [i \in 1..Len(sorted) |-> BuildItem(sorted[i], i - 1)]

(***************************************************************************)
(* The fragments.  Each fragment holds every element its handler looks up; *)
(* what the script has not written yet is as in the fragment ("tmpl").     *)
(***************************************************************************)
TmplValue == [t |-> "tmpl", v |-> 0]

FreshLobby ==
  [info |-> "tmpl", playersEl |-> <<>>, startBound |-> FALSE,
   startDisabled |-> "tmpl", cancelBound |-> FALSE, cancelHidden |-> "tmpl",
   cancelDisabled |-> "tmpl", msgHidden |-> "tmpl", msgText |-> TmplMessage,
   timerHidden |-> "tmpl", timerText |-> TmplText, timerWarn |-> "tmpl",
   sectionHidden |-> "tmpl"]

NoQuizBest == [time |-> NoFormat, players |-> <<>>]

FreshQuestion ==
  [progress |-> TmplValue, title |-> 0, options |-> 0,
   resultsVisible |-> "tmpl", timerHidden |-> "tmpl", timerText |-> TmplText,
   timerWarn |-> "tmpl", answers |-> <<>>, scoreboard |-> <<>>,
   bestTime |-> NoFormat, quizBest |-> NoQuizBest]

FreshFinal ==
  [title |-> "tmpl", rows |-> <<>>, recordValue |-> NoFormat,
   recordPlayers |-> <<>>, recordPlayerHidden |-> "tmpl"]

NoContext == [progress |-> Null, title |-> 0]

Mounted(s, screen) ==
  \E i \in 1..Len(s.container) : s.container[i] = screen

RECURSIVE AddAllUnique(_, _, _)
AddAllUnique(seq, more, i) ==
  IF i > Len(more) THEN seq
  ELSE AddAllUnique(AddUnique(seq, more[i]), more, i + 1)

\* the names shown with the quiz record: fastest.player, then fastest.players
RecordPlayers(fastest) ==
  AddAllUnique(IF fastest.player # "" THEN <<fastest.player>> ELSE <<>>,
               fastest.players, 1)

BuildScoreboardMeta(entry) ==
  LET answered == IF entry.answered_count.t = "number"
                  THEN entry.answered_count.v ELSE 0
      hasAnswers == answered > 0
  IN [answered |-> answered,
      average |-> IF hasAnswers
                  THEN FormatSeconds(entry.average_response_time, TRUE)
                  ELSE Dash,
      total |-> IF hasAnswers
                THEN FormatSeconds(entry.total_response_time, TRUE)
                ELSE Dash,
      best |-> IF entry.best_response_time.t = "number"
               THEN FormatSeconds(entry.best_response_time, TRUE)
               ELSE NoFormat]

(***************************************************************************)
(* stateHandlers (room.js 664-966).                                        *)
(***************************************************************************)
LobbyHandler(s, data) ==
  LET s1 == CountdownClear(s)
  IN IF ~Mounted(s1, "lobby")
     THEN s1
     ELSE ApplyAutoStartUi(
            [s1 EXCEPT !.lobbyDom.info = "set",
                       !.lobbyDom.playersEl = data.players,
                       !.lobbyDom.startBound = TRUE,
                       !.lobbyDom.startDisabled = StartDisabled(s1),
                       !.lobbyDom.cancelBound = TRUE])

QuestionHandler(s, data) ==
  IF ~Mounted(s, "question")
  THEN CountdownClear(s)
  ELSE
    LET ctx == s.lastQuestionContext
        s1 == IF data.question # 0
              THEN [s EXCEPT
                      !.questionDom.progress = data.question_number,
                      !.questionDom.title = data.question,
                      !.questionDom.options = data.question,
                      !.lastQuestionContext =
                        [progress |-> data.question_number,
                         title |-> data.question]]
              ELSE IF ctx # NoContext
              THEN [s EXCEPT
                      !.questionDom.progress = ctx.progress,
                      !.questionDom.title = ctx.title,
                      !.questionDom.options = IF @ = 0 THEN ctx.title ELSE @]
              ELSE s
        startedAt == data.question_started_at
        duration == data.question_duration
        s2 == IF Truthy(data.server_time)
              THEN ServerClockSync(s1, data.server_time)
              ELSE IF Truthy(startedAt)
              THEN ServerClockSync(s1, startedAt)
              ELSE s1
        s3 == [s2 EXCEPT !.questionDom.resultsVisible = B(data.has_results)]
        s4 == IF data.has_results \/ ~Truthy(startedAt) \/ ~Truthy(duration)
              THEN [CountdownClear(s3) EXCEPT !.questionDom.timerHidden = "true"]
              ELSE CountdownStart(s3, "question", startedAt, duration)
        fastest == data.timing_summary.fastest
    IN [s4 EXCEPT
          !.questionDom.answers = data.results,
          !.questionDom.scoreboard =
            [i \in 1..Len(data.scoreboard) |->
               [hasRecord |-> /\ data.scoreboard[i].has_fastest_record
                              /\ fastest.value.t # "null",
                player |-> data.scoreboard[i].player,
                score |-> data.scoreboard[i].score,
                meta |-> BuildScoreboardMeta(data.scoreboard[i])]],
          !.questionDom.bestTime =
            IF data.results_fastest_time.t = "number"
            THEN FormatSeconds(data.results_fastest_time, FALSE)
            ELSE Dash,
          !.questionDom.quizBest =
            IF fastest.value.t = "number"
            THEN [time |-> FormatSeconds(fastest.value, FALSE),
                  players |-> RecordPlayers(fastest)]
            ELSE [time |-> Dash, players |-> <<>>]]

FinalHandler(s, data) ==
  LET s1 == CountdownClear(s)
      s2 == IF Truthy(data.server_time)
            THEN ServerClockSync(s1, data.server_time)
            ELSE s1
      fastest == data.timing_summary.fastest
  IN IF ~Mounted(s2, "final")
     THEN s2
     ELSE [s2 EXCEPT
             !.finalDom.title = "set",
             !.finalDom.rows = LeaderboardRender(@, data.scoreboard),
             !.finalDom.recordValue =
               IF fastest.value.t = "number"
               THEN FormatSeconds(fastest.value, FALSE)
               ELSE Dash,
             !.finalDom.recordPlayers = RecordPlayers(fastest),
             !.finalDom.recordPlayerHidden =
               B(RecordPlayers(fastest) = <<>>)]

StateHandler(s, state, data) ==
  CASE state = "lobby" -> LobbyHandler(s, data)
    [] state = "question" -> QuestionHandler(s, data)
    [] state = "final" -> FinalHandler(s, data)

(***************************************************************************)
(* Fragments and the swap (room.js 574-657).  The html of a screen is the  *)
(* screen's name; a pending safeEnsureState call is a task                 *)
(*   pc = "fetch"  awaiting the response of fetch                          *)
(*   pc = "leave"  awaiting the leave animation of the previous element    *)
(*   pc = "enter"  awaiting the enter animation of the mounted element     *)
(***************************************************************************)
Html(state) == state

NoTask ==
  [pc |-> "idle", state |-> NoScreen, data |-> EmptyPayload, html |-> ""]

Slots == 1..MaxTasks

HasFreeSlot(s) == \E t \in Slots : s.tasks[t].pc = "idle"
FreeSlot(s) ==
  CHOOSE t \in Slots :
    /\ s.tasks[t].pc = "idle"
    /\ \A u \in Slots : s.tasks[u].pc = "idle" => t <= u

\* container.innerHTML = "": the fragments leave the document
ClearContainer(s) ==
  LET el == s.countdownTimer.element
  IN [s EXCEPT
        !.container = <<>>,
        !.lobbyDom = FreshLobby,
        !.questionDom = FreshQuestion,
        !.finalDom = FreshFinal,
        !.countdownTimer.element =
          IF el \in {"lobby", "question"}
             /\ \E i \in 1..Len(s.container) : s.container[i] = el
          THEN IF el = "lobby" THEN "lobby-gone" ELSE "question-gone"
          ELSE el]

\* container.appendChild(fragment)
AppendFragment(s, html) == [s EXCEPT !.container = Append(@, html)]

\* swapContent, from its first line to its first suspension
SwapContent(s, t, state, data, html) ==
  IF Len(s.container) > 0
  THEN [s EXCEPT !.tasks[t] = [pc |-> "leave", state |-> state,
                               data |-> data, html |-> html]]
  ELSE [AppendFragment(ClearContainer(s), html) EXCEPT
          !.tasks[t] = [pc |-> "enter", state |-> state, data |-> data,
                        html |-> html]]

\* swapContent appending without emptying the container
SwapAfterLeaveKeeping(s, t) ==
  [AppendFragment(s, s.tasks[t].html) EXCEPT !.tasks[t].pc = "enter"]

\* swapContent after the leave animation, to its second suspension
SwapAfterLeave(s, t) ==
  [AppendFragment(ClearContainer(s), s.tasks[t].html) EXCEPT
     !.tasks[t].pc = "enter"]

\* changeState after the swap, then the handler (ensureState)
FinishState(s, t) ==
  LET task == s.tasks[t]
  IN StateHandler([s EXCEPT !.currentState = task.state, !.tasks[t] = NoTask],
                  task.state, task.data)

\* fetchTemplate without the test of response.ok
FetchResponseAnyStatus(s, t, ok) ==
  LET task == s.tasks[t]
  IN SwapContent(
       [s EXCEPT !.templateCache = (task.state :> Html(task.state)) @@ @],
       t, task.state, task.data, Html(task.state))

\* fetchTemplate after the response: cache and swap, or throw into the catch
\* of safeEnsureState
FetchResponse(s, t, ok) ==
  LET task == s.tasks[t]
  IN IF ok
     THEN SwapContent(
            [s EXCEPT !.templateCache = (task.state :> Html(task.state)) @@ @],
            t, task.state, task.data, Html(task.state))
     ELSE ShowError([s EXCEPT !.tasks[t] = NoTask], ErrDisplay)

\* safeEnsureState abandoning the calls that still await their fetch
SafeEnsureStateCancelling(s, state, data) ==
  LET s1 == [s EXCEPT !.tasks = [t \in Slots |->
                                   IF @[t].pc = "fetch" THEN NoTask ELSE @[t]]]
  IN IF s1.currentState = state
     THEN StateHandler(s1, state, data)
     ELSE IF state \in DOMAIN s1.templateCache
     THEN SwapContent(s1, FreeSlot(s1), state, data, s1.templateCache[state])
     ELSE [s1 EXCEPT !.tasks[FreeSlot(s1)] =
                       [pc |-> "fetch", state |-> state, data |-> data,
                        html |-> ""]]

\* safeEnsureState without the comparison of changeState
SafeEnsureStateUnchecked(s, state, data) ==
  IF state \in DOMAIN s.templateCache
  THEN SwapContent(s, FreeSlot(s), state, data, s.templateCache[state])
  ELSE [s EXCEPT !.tasks[FreeSlot(s)] =
                   [pc |-> "fetch", state |-> state, data |-> data,
                    html |-> ""]]

\* safeEnsureState, to its first suspension
SafeEnsureState(s, state, data) ==
  IF s.currentState = state
  THEN StateHandler(s, state, data)
  ELSE IF state \in DOMAIN s.templateCache
  THEN SwapContent(s, FreeSlot(s), state, data, s.templateCache[state])
  ELSE [s EXCEPT !.tasks[FreeSlot(s)] =
                   [pc |-> "fetch", state |-> state, data |-> data,
                    html |-> ""]]

\* the call suspends, and so takes a slot of the model
Suspends(s, state) == s.currentState # state

\* renderPlayers rendering the roster only where the lobby is current
RenderPlayersInLobbyOnly(s, playersList) ==
  LET s1 == [s EXCEPT !.players = playersList]
  IN IF s1.currentState = "lobby"
     THEN SafeEnsureState(s1, "lobby",
                          [EmptyPayload EXCEPT !.players = s1.players])
     ELSE s1

RenderPlayers(s, playersList) ==
  LET s1 == [s EXCEPT !.players = playersList]
  IN SafeEnsureState(s1, "lobby", [EmptyPayload EXCEPT !.players = s1.players])

\* handleStartGame sending whatever the socket's state
HandleStartGameUnchecked(s) ==
  LET s1 == SocketSend(HideError(s), "start_game")
      s2 == [s1 EXCEPT !.gameInProgress = TRUE]
  IN IF Len(s2.container) > 0 /\ Mounted(s2, "lobby")
     THEN [s2 EXCEPT !.lobbyDom.startDisabled = "true"]
     ELSE s2

\* handleStartGame leaving the control to the next render
HandleStartGameAwaiting(s) ==
  IF s.socket # "OPEN"
  THEN ShowError(s, ErrNoConnection)
  ELSE [SocketSend(HideError(s), "start_game") EXCEPT !.gameInProgress = TRUE]

HandleStartGame(s) ==
  IF s.socket # "OPEN"
  THEN ShowError(s, ErrNoConnection)
  ELSE LET s1 == SocketSend(HideError(s), "start_game")
           s2 == [s1 EXCEPT !.gameInProgress = TRUE]
       IN IF Len(s2.container) > 0 /\ Mounted(s2, "lobby")
          THEN [s2 EXCEPT !.lobbyDom.startDisabled = "true"]
          ELSE s2

(***************************************************************************)
(* Inbound frames (room.js 1022-1070).  event.data is "garbage" (not       *)
(* JSON), the JSON text null, a JSON scalar, or an object with the fields  *)
(* event and payload.                                                      *)
(***************************************************************************)
Frame(event, payload) == [raw |-> "object", event |-> event, payload |-> payload]
NoFrame == [raw |-> "none", event |-> "", payload |-> EmptyPayload]
Garbage == [raw |-> "garbage", event |-> "", payload |-> EmptyPayload]
JsonNull == [raw |-> "null", event |-> "", payload |-> EmptyPayload]
JsonScalar == [raw |-> "scalar", event |-> "", payload |-> EmptyPayload]

EventTags ==
  {"player_joined", "show_question", "show_results", "show_final",
   "auto_start_scheduled", "auto_start_cancelled", "auto_start_triggered",
   "error"}

\* the test of the question number taking a missing number for a later one
StartsNewQuizNumbered(payload) ==
  /\ payload.question_number.t = "number"
  /\ payload.question_number.v <= 1

\* (payload?.question_number ?? 0) <= 1
StartsNewQuiz(payload) ==
  LET n == ToNumber(Coalesce(payload.question_number, Num(0)))
  IN n.t = "number" /\ n.v <= 1

\* the body of the switch
Dispatch(s, eventName, payload) ==
  CASE eventName = "player_joined" -> RenderPlayers(s, payload.players)
    [] eventName = "show_question" ->
         LET s1 == HideGlobalAutoStartBlock(s)
             s2 == IF StartsNewQuiz(payload)
                   THEN [s1 EXCEPT !.responseStats = <<>>]
                   ELSE s1
             s3 == ResetAutoStartState([s2 EXCEPT !.gameInProgress = TRUE])
         IN SafeEnsureState(s3, "question", payload)
    [] eventName = "show_results" ->
         LET s1 == HideGlobalAutoStartBlock(s)
             prepared == PrepareResultsPayload(s1.responseStats, payload)
         IN SafeEnsureState([s1 EXCEPT !.responseStats = prepared.stats],
                            "question", prepared.data)
    [] eventName = "show_final" ->
         LET s1 == HideGlobalAutoStartBlock(s)
             s2 == ResetAutoStartState(
                     [s1 EXCEPT !.gameInProgress = FALSE,
                                !.lastQuestionContext = NoContext])
         IN SafeEnsureState(s2, "final",
                            PrepareFinalPayload(s2.responseStats, payload))
    [] eventName = "auto_start_scheduled" ->
         SetAutoStartScheduled(s, payload, FALSE)
    [] eventName = "auto_start_cancelled" -> SetAutoStartCancelled(s, payload)
    [] eventName = "auto_start_triggered" ->
         SetAutoStartTriggered(HideGlobalAutoStartBlock(s), payload)
    [] eventName = "error" ->
         ShowError(s, IF payload.message.t \in {"undefined", "null"}
                      THEN ErrUnknown ELSE ErrText(payload.message))
    [] OTHER -> s

\* JSON.parse throws, or the destructuring of null does
Throws(frame) == frame.raw \in {"garbage", "null"}

\* the message listener without its try and catch
OnMessageUnguarded(s, frame) ==
  IF Throws(frame)
  THEN [s EXCEPT !.uncaught = TRUE]
  ELSE IF frame.raw = "scalar"
  THEN Dispatch(s, "", EmptyPayload)
  ELSE Dispatch(s, frame.event, frame.payload)

\* the message listener: what JSON.parse and the destructuring throw is
\* caught and logged
OnMessage(s, frame) ==
  IF Throws(frame)
  THEN s
  ELSE IF frame.raw = "scalar"
  THEN Dispatch(s, "", EmptyPayload)
  ELSE Dispatch(s, frame.event, frame.payload)

\* the screen the frame's handler asks for, "null" when it asks for none
TargetScreen(frame) ==
  IF frame.raw # "object" THEN NoScreen
  ELSE CASE frame.event = "player_joined" -> "lobby"
         [] frame.event \in {"show_question", "show_results"} -> "question"
         [] frame.event = "show_final" -> "final"
         [] OTHER -> NoScreen

(***************************************************************************)
(* Socket listeners (room.js 1003-1020) and the initialisation             *)
(* (room.js 364-377, 1073-1079).                                           *)
(***************************************************************************)
OnOpen(s) == RefreshLobbyAutoStartUi(HideError(s))
\* the close listener without the banner
OnCloseSilent(s) == RefreshLobbyAutoStartUi(s)

OnClose(s) == RefreshLobbyAutoStartUi(ShowError(s, ErrConnectionLost))
OnError(s) == RefreshLobbyAutoStartUi(ShowError(s, ErrConnectionError))

\* the finally callback of the prefetch
Initialise(s) ==
  LET s1 == SafeEnsureState(s, "lobby",
                            [EmptyPayload EXCEPT !.players = s.players])
  IN [s1 EXCEPT !.socket = "CONNECTING"]

\* roomConfig: the data-auto-start-* attributes of the container
RoomConfig(scheduledAt, delay, origin, serverTime) ==
  [autoStartScheduledAt |-> scheduledAt, autoStartDelay |-> delay,
   autoStartOrigin |-> origin, autoStartServerTime |-> serverTime]

\* the state when the script has run to its end, before any callback
Loaded(roomConfig) ==
  LET s0 ==
        [templateCache |-> <<>>,
         prefetch |-> Screens,
         currentState |-> NoScreen, socket |-> "null",
         gameInProgress |-> FALSE, players |-> <<>>,
         lastQuestionContext |-> NoContext, responseStats |-> <<>>,
         serverClock |-> [offset |-> 0], now |-> 0,
         countdownTimer |->
           [timerId |-> "null", endTime |-> 0, element |-> "null"],
         intervals |-> 0, autoStartState |-> IdleAutoStart,
         container |-> <<>>, lobbyDom |-> FreshLobby,
         questionDom |-> FreshQuestion, finalDom |-> FreshFinal,
         roomError |-> [text |-> "", hidden |-> TRUE],
         tasks |-> [t \in Slots |-> NoTask], outbox |-> <<>>,
         uncaught |-> FALSE]
      s1 == IF Truthy(roomConfig.autoStartServerTime)
            THEN ServerClockSync(s0, roomConfig.autoStartServerTime)
            ELSE s0
  IN IF Truthy(roomConfig.autoStartScheduledAt)
     THEN SetAutoStartScheduled(s1,
            [EmptyPayload EXCEPT
               !.scheduled_at = roomConfig.autoStartScheduledAt,
               !.delay = roomConfig.autoStartDelay,
               !.origin = roomConfig.autoStartOrigin,
               !.server_time = roomConfig.autoStartServerTime],
            TRUE)
     ELSE s1

(***************************************************************************)
(* Inputs.                                                                 *)
(***************************************************************************)
RoomConfigs ==
  {RoomConfig(EmptyStr, EmptyStr, EmptyStr, EmptyStr),
   RoomConfig(Iso(2000), NumStr(2000), Str(7), Iso(0))}

Rosters == {<<>>, <<"A">>}

Frames ==
  {Frame("player_joined", [EmptyPayload EXCEPT !.players = r]) : r \in Rosters}
  \cup
  {Frame("show_question",
         [EmptyPayload EXCEPT !.question = 1, !.question_number = Num(1),
                              !.question_started_at = Iso(0),
                              !.question_duration = Num(1000)]),
   Frame("show_question",
         [EmptyPayload EXCEPT !.question = 2, !.question_number = Num(2)]),
   Frame("show_results",
         [EmptyPayload EXCEPT
            !.results = <<Result("A", Num(2000000))>>,
            !.scoreboard = <<Entry("A", 1, Undef)>>]),
   Frame("show_final",
         [EmptyPayload EXCEPT !.scoreboard = <<Entry("A", 1, Undef)>>]),
   Frame("auto_start_scheduled",
         [EmptyPayload EXCEPT !.scheduled_at = Iso(2000), !.delay = Num(2000),
                              !.origin = Str(7), !.server_time = Iso(0)]),
   Frame("auto_start_cancelled",
         [EmptyPayload EXCEPT !.reason = HostCancelled, !.origin = Str(8)]),
   Frame("auto_start_triggered", [EmptyPayload EXCEPT !.origin = Str(7)]),
   Frame("error", [EmptyPayload EXCEPT !.message = Str(1)]),
   Frame("bogus", [EmptyPayload EXCEPT !.players = <<"A">>]),
   Garbage, JsonNull, JsonScalar}

\* the frame records no more than MaxCount finite times per player
WithinCount(s, frame) ==
  IF frame.raw = "object" /\ frame.event = "show_results"
  THEN \A i \in 1..Len(frame.payload.results) :
         LET k == StatsIndex(s.responseStats, frame.payload.results[i].player)
         IN IF k = 0 THEN TRUE ELSE s.responseStats[k].count < MaxCount
  ELSE TRUE

\* what is remembered of a delivered frame: whether it was JSON, its event
\* tag, whether it asked for the screen that was current, and the event tag
\* of the frame delivered before it, if no other task ran in between
Did(s, frame, before) ==
  [raw |-> frame.raw, event |-> frame.event,
   same |-> TargetScreen(frame) # NoScreen
            /\ TargetScreen(frame) = s.currentState,
   prev |-> IF before.fresh THEN before.event ELSE "",
   fresh |-> TRUE]

\* another task has run
Aged(l) == [l EXCEPT !.fresh = FALSE]

(***************************************************************************)
(* Actions: one task of the event loop each.                               *)
(***************************************************************************)
Init ==
  \E roomConfig \in RoomConfigs :
    /\ Begin(Loaded(roomConfig))
    /\ received = 0
    /\ last = [raw |-> "none", event |-> "", same |-> FALSE, prev |-> "",
               fresh |-> FALSE]

\* the response of one of the three fetches of the initialisation; the one
\* that settles Promise.all runs the finally callback.  The model follows the
\* responses in the order of the requests: lobby, question, final.
Prefetched(x, ok) ==
  /\ x \in prefetch
  /\ x = "question" => "lobby" \notin prefetch
  /\ x = "final" => prefetch = {"final"}
  /\ LET s1 == [St EXCEPT
                  !.prefetch = @ \ {x},
                  !.templateCache = IF ok THEN (x :> Html(x)) @@ @ ELSE @]
         settles == /\ socket = "null"
                    /\ IF ok THEN prefetch = {x} ELSE TRUE
     IN Commit(IF settles THEN Initialise(s1) ELSE s1)
  /\ UNCHANGED received
  /\ last' = Aged(last)

Receive(frame, most) ==
  /\ socket = "OPEN"
  /\ received < most
  /\ TargetScreen(frame) # NoScreen /\ Suspends(St, TargetScreen(frame))
       => HasFreeSlot(St)
  /\ WithinCount(St, frame)
  /\ Commit(OnMessage(St, frame))
  /\ received' = received + 1
  /\ last' = Did(St, frame, last)

SocketOpened ==
  /\ socket = "CONNECTING"
  /\ Commit(OnOpen([St EXCEPT !.socket = "OPEN"]))
  /\ UNCHANGED received
  /\ last' = Aged(last)

\* the closing handshake has started: no listener runs
SocketClosing ==
  /\ socket = "OPEN"
  /\ Commit([St EXCEPT !.socket = "CLOSING"])
  /\ UNCHANGED received
  /\ last' = Aged(last)

\* the connection is closed; error fires before close when it failed
SocketClosed(failed) ==
  /\ socket \in {"CONNECTING", "OPEN", "CLOSING"}
  /\ socket = "CONNECTING" => failed
  /\ LET s1 == [St EXCEPT !.socket = "CLOSED"]
     IN Commit(OnClose(IF failed THEN OnError(s1) ELSE s1))
  /\ UNCHANGED received
  /\ last' = Aged(last)

ClickStartGame ==
  /\ Mounted(St, "lobby")
  /\ lobbyDom.startBound
  /\ lobbyDom.startDisabled # "true"
  /\ socket = "OPEN" => Len(outbox) < MaxOutbox
  /\ Commit(HandleStartGame(St))
  /\ UNCHANGED received
  /\ last' = Aged(last)

ClickCancelAutoStart ==
  /\ Mounted(St, "lobby")
  /\ lobbyDom.cancelBound
  /\ lobbyDom.cancelDisabled # "true"
  /\ lobbyDom.cancelHidden # "true"
  /\ lobbyDom.sectionHidden # "true"
  /\ socket = "OPEN" => Len(outbox) < MaxOutbox
  /\ Commit(HandleCancelAutoStart(St))
  /\ UNCHANGED received
  /\ last' = Aged(last)

FetchResponded(t, ok) ==
  /\ tasks[t].pc = "fetch"
  /\ Commit(FetchResponse(St, t, ok))
  /\ UNCHANGED received
  /\ last' = Aged(last)

LeaveAnimated(t) ==
  /\ tasks[t].pc = "leave"
  /\ Commit(SwapAfterLeave(St, t))
  /\ UNCHANGED received
  /\ last' = Aged(last)

EnterAnimated(t) ==
  /\ tasks[t].pc = "enter"
  /\ Commit(FinishState(St, t))
  /\ UNCHANGED received
  /\ last' = Aged(last)

\* a callback of a live interval
IntervalFired ==
  /\ intervals > 0
  /\ Commit(Render(St))
  /\ UNCHANGED received
  /\ last' = Aged(last)

\* the local clock advances by a second
Tick ==
  /\ now < MaxNow * 1000
  /\ Commit([St EXCEPT !.now = @ + 1000])
  /\ UNCHANGED <<received, last>>

\* the tasks of the event loop, the socket delivering at most `most` frames
\* of `frames`
Run(frames, most) ==
  \/ \E x \in Screens, ok \in BOOLEAN : Prefetched(x, ok)
  \/ \E frame \in frames : Receive(frame, most)
  \/ SocketOpened
  \/ SocketClosing
  \/ \E failed \in BOOLEAN : SocketClosed(failed)
  \/ ClickStartGame
  \/ ClickCancelAutoStart
  \/ \E t \in Slots, ok \in BOOLEAN : FetchResponded(t, ok)
  \/ \E t \in Slots : LeaveAnimated(t)
  \/ \E t \in Slots : EnterAnimated(t)
  \/ IntervalFired
  \/ Tick

\* the frames that change or keep the screen, and the frames that are dropped
NavFrames ==
  {f \in Frames : f.raw # "object"
                   \/ f.event \in {"show_question", "show_final", "bogus"}
                   \/ (f.event = "player_joined" /\ f.payload.players # <<>>)}

\* the frames of the automatic start, and the frames that reset it
AutoFrames ==
  {f \in Frames : f.raw = "object"
                   /\ \/ f.event \in {"auto_start_scheduled",
                                       "auto_start_cancelled",
                                       "auto_start_triggered", "show_question",
                                       "show_final"}
                      \/ (f.event = "player_joined"
                          /\ f.payload.players # <<>>)}

Next == Run(NavFrames, MaxFrames)

Spec == Init /\ [][Next]_vars

AutoNext == Run(AutoFrames, MaxFrames)

AutoSpec == Init /\ [][AutoNext]_vars


\* the orders a results list can arrive in
Orders(list) ==
  {[i \in 1..Len(list) |-> list[p[i]]] : p \in Permutations(1..Len(list))}

\* the scoreboard of a quiz with four players, the last of whom never answers
Board ==
  <<Entry("A", 3, Undef), Entry("B", 2, Undef), Entry("C", 1, Undef),
    Entry("D", 0, Undef)>>

\* results lists, times in millionths of a second: a tie and a slower answer,
\* three times one millionth apart, a single answer, and an answer without a
\* time
ResultLists ==
  Orders(<<Result("A", Num(2000000)), Result("B", Num(2000000)),
           Result("C", Num(3000000))>>)
  \cup
  Orders(<<Result("A", Num(2000001)), Result("B", Num(2000000)),
           Result("C", Num(1999999))>>)
  \cup
  {<<Result("A", Num(1500000))>>,
   <<Result("A", Undef), Result("B", Num(2000000))>>}

\* the frames of a quiz: questions with and without a number, results with
\* and without a time for the first player, the final screen, and a player
\* joining
QuizFrames ==
  {f \in Frames : /\ f.raw = "object"
                  /\ \/ f.event \in {"show_question", "show_final"}
                     \/ (f.event = "player_joined" /\ f.payload.players # <<>>)}
  \cup
  {Frame("show_question", [EmptyPayload EXCEPT !.question = 3])}
  \cup
  {Frame("show_results",
         [EmptyPayload EXCEPT !.results = r, !.scoreboard = Board]) :
     r \in {<<Result("A", Num(2000000)), Result("B", Num(2000000)),
              Result("C", Num(3000000))>>,
            <<Result("A", Undef), Result("B", Num(2000000))>>}}

\* the rosters a player_joined frame carries, the empty one standing for a
\* frame without players, and the frames that mount the other two screens
RosterFrames ==
  {f \in Frames : f.raw = "object"
                   /\ f.event \in {"player_joined", "show_question",
                                   "show_final"}}

RosterNext == Run(RosterFrames, MaxFrames)

RosterSpec == Init /\ [][RosterNext]_vars

\* the frames that set and clear gameInProgress, and those that arrive
\* after start_game without starting the game
ProgressFrames ==
  {f \in Frames : f.raw = "object"
                   /\ \/ f.event \in {"show_question", "show_final",
                                       "auto_start_cancelled", "error"}
                      \/ (f.event = "player_joined"
                          /\ f.payload.players # <<>>)}

ProgressNext == Run(ProgressFrames, MaxFrames)

ProgressSpec == Init /\ [][ProgressNext]_vars

\* the frames of the automatic start and every frame that changes the
\* screen, show_results among them
CountdownFrames ==
  AutoFrames \cup {f \in Frames : f.raw = "object"
                                   /\ f.event = "show_results"}

CountdownNext == Run(CountdownFrames, MaxFrames)

CountdownSpec == Init /\ [][CountdownNext]_vars

QuizNext == Run(QuizFrames, MaxFrames)

QuizSpec == Init /\ [][QuizNext]_vars

(***************************************************************************)
(* The aggregator on its own: the calls of prepareResultsPayload and       *)
(* resetResponseStats (room.js 413-562) with results lists of every order. *)
(***************************************************************************)
Players == {"A", "B", "C"}

\* times one millionth of a second apart, and an answer without a time
Times == {Num(1999999), Num(2000000), Num(2000001), Undef}

\* the lists of one or two answers of different players, and the lists of
\* three answers above
AnswerLists ==
  {<<Result(p, t)>> : p \in Players, t \in Times}
  \cup
  {<<Result(pq[1], tu[1]), Result(pq[2], tu[2])>> :
     pq \in {x \in Players \X Players : x[1] # x[2]}, tu \in Times \X Times}
  \cup ResultLists

ResultsPayload(results) ==
  [EmptyPayload EXCEPT !.results = results, !.scoreboard = Board]

\* prepareResultsPayload(payload)
ResultsPrepared(results) ==
  /\ WithinCount(St, Frame("show_results", ResultsPayload(results)))
  /\ responseStats' =
       PrepareResultsPayload(responseStats, ResultsPayload(results)).stats
  /\ UNCHANGED <<templateCache, prefetch, currentState, socket,
                 gameInProgress, players, lastQuestionContext, serverClock,
                 now, countdownTimer, intervals, autoStartState, container,
                 lobbyDom, questionDom, finalDom, roomError, tasks, outbox,
                 uncaught>>
  /\ UNCHANGED received
  /\ last' = Aged(last)

\* resetResponseStats()
StatsReset ==
  /\ responseStats' = <<>>
  /\ UNCHANGED <<templateCache, prefetch, currentState, socket,
                 gameInProgress, players, lastQuestionContext, serverClock,
                 now, countdownTimer, intervals, autoStartState, container,
                 lobbyDom, questionDom, finalDom, roomError, tasks, outbox,
                 uncaught>>
  /\ UNCHANGED received
  /\ last' = Aged(last)

AggregatorNext ==
  \/ \E results \in AnswerLists : ResultsPrepared(results)
  \/ StatsReset

AggregatorSpec == Init /\ [][AggregatorNext]_vars

\* response times that are no finite number: absent, null, NaN and a string
\* that spells no number
MissingTimes == {Undef, Null, NaNv, Str(1)}

\* an answer with a finite time or without one, alone or next to a timed
\* answer of another player, in both orders
MissingLists ==
  {<<Result(p, t)>> :
     p \in Players, t \in MissingTimes \cup {Num(2000000), Num(3000000)}}
  \cup
  {<<Result(pq[1], t), Result(pq[2], Num(2000000))>> :
     pq \in {x \in Players \X Players : x[1] # x[2]}, t \in MissingTimes}
  \cup
  {<<Result(pq[1], Num(2000000)), Result(pq[2], t)>> :
     pq \in {x \in Players \X Players : x[1] # x[2]}, t \in MissingTimes}

MissingNext ==
  \/ \E results \in MissingLists : ResultsPrepared(results)
  \/ StatsReset

MissingSpec == Init /\ [][MissingNext]_vars

(***************************************************************************)
(* The leaderboard on its own: Leaderboard.render called on the list of    *)
(* the final screen with lists of one to three entries.  The entry at      *)
(* position 1, 2, 3 of the input is the one of player A, B, C.             *)
(***************************************************************************)
LbNames == <<"A", "B", "C">>

\* the scores formatPoints is applied to directly are -MaxScore..MaxScore
MaxScore == 225

\* total response times: absent, null, a string that spells no number, and
\* two times below and one above 100 s
LbTimes ==
  {Undef, Null, Str(1), Num(1500000), Num(2500000), Num(120000000)}

\* scores whose word takes each of the three forms, above 100 and below 0
LbScores == {-111, -21, -11, -2, -1, 0, 1, 2, 4, 5, 11, 12, 14, 21, 22, 25, 100,
             101, 111, 112, 121}

\* the inputs: a single entry of every score, and lists of two and three
\* entries of scores 0 and 1
EntryLists ==
  {<<Entry(LbNames[1], sc, t)>> : sc \in LbScores, t \in LbTimes}
  \cup
  {<<Entry(LbNames[1], sc[1], t[1]), Entry(LbNames[2], sc[2], t[2])>> :
     sc \in {0, 1} \X {0, 1}, t \in LbTimes \X LbTimes}
  \cup
  {<<Entry(LbNames[1], 1, t[1]), Entry(LbNames[2], sc[1], t[2]),
     Entry(LbNames[3], sc[2], t[3])>> :
     sc \in {0, 1} \X {0, 1}, t \in LbTimes \X LbTimes \X LbTimes}

\* Leaderboard.render(list, entries)
LeaderboardRendered(entries) ==
  /\ finalDom' = [finalDom EXCEPT !.rows = LeaderboardRender(@, entries)]
  /\ UNCHANGED <<templateCache, prefetch, currentState, socket,
                 gameInProgress, players, lastQuestionContext, responseStats,
                 serverClock, now, countdownTimer, intervals, autoStartState,
                 container, lobbyDom, questionDom, roomError, tasks, outbox,
                 uncaught>>
  /\ UNCHANGED received
  /\ last' = Aged(last)

LeaderboardNext == \E entries \in {<<>>} \cup EntryLists :
                     LeaderboardRendered(entries)

LeaderboardSpec == Init /\ [][LeaderboardNext]_vars

(***************************************************************************)
(* The countdown and the clock on their own: the calls the rest of the     *)
(* script makes on countdownTimer and serverClock (room.js 45-133), with   *)
(* every kind of argument, the callbacks of the interval, and the local    *)
(* clock.  The elements handed to start are the countdown elements of the  *)
(* lobby and question fragments.                                           *)
(***************************************************************************)
TimerElements == {"null", "lobby", "question"}

StartIsos == {Undef, Str(1), Iso(0), Iso(1000)}

\* in thousandths of a second; NumStr(1000) is the string "1"
Durations ==
  {Undef, Str(1), NaNv, Num(0), Num(-1000), Num(1000), Num(2000),
   NumStr(1000)}

SyncIsos == {Undef, Null, EmptyStr, Str(1), Iso(0), Iso(1000), Iso(2000)}

\* countdownTimer.start(targetElement, startIso, durationSeconds)
TimerStarted(targetElement, startIso, durationSeconds) ==
  /\ Commit(CountdownStart(St, targetElement, startIso, durationSeconds))
  /\ UNCHANGED received
  /\ last' = Aged(last)

\* countdownTimer.clear()
TimerCleared ==
  /\ Commit(CountdownClear(St))
  /\ UNCHANGED received
  /\ last' = Aged(last)

\* serverClock.sync(serverTimeIso)
ClockSynced(serverTimeIso) ==
  /\ Commit(ServerClockSync(St, serverTimeIso))
  /\ UNCHANGED received
  /\ last' = Aged(last)

TimerNext ==
  \/ \E el \in TimerElements, iso \in StartIsos, d \in Durations :
       TimerStarted(el, iso, d)
  \/ TimerCleared
  \/ \E iso \in SyncIsos : ClockSynced(iso)
  \/ IntervalFired
  \/ Tick

TimerSpec == Init /\ [][TimerNext]_vars

\* the browser runs the callback of a live interval, and time passes
TimerLiveSpec ==
  TimerSpec /\ WF_vars(IntervalFired) /\ WF_vars(Tick)


(***************************************************************************)
(* Properties.  A step that delivers a frame is one that increments        *)
(* `received`; `last` then describes the frame.                            *)
(***************************************************************************)
Delivered == received' = received + 1

\* C1: when the screen a frame asks for is already the current one,
\* ensureState starts no fetch, swaps nothing and leaves currentState alone:
\* the pending calls, the mounted fragments, the cache and currentState are
\* unchanged, and the screen's handler has run on the mounted lobby (it has
\* rendered the frame's players).
C1_SameScreenOnlyHandler ==
  [][Delivered /\ last'.same =>
       /\ UNCHANGED <<currentState, container, templateCache, tasks>>
       /\ last'.event = "player_joined" /\ Mounted(St, "lobby")
            => /\ lobbyDom'.playersEl = players'
               /\ lobbyDom'.startBound]_vars

C1_Witness ==
  /\ last.same /\ last.event = "player_joined"
  /\ currentState = "lobby" /\ Mounted(St, "lobby")
  /\ players = <<"A">> /\ lobbyDom.playersEl = <<"A">>
  /\ \A t \in Slots : tasks[t].pc = "idle"

\* C2: a failed fetch of a fragment is all-or-nothing: the step that handles
\* the failure leaves the mounted fragments and their elements, currentState
\* and the cache as they were, runs no handler (nothing else of the state
\* changes either), ends the call, and shows the banner with the fixed
\* "could not display the screen" text.
C2_FailedFetchChangesNothing ==
  [][\A t \in Slots :
       FetchResponded(t, FALSE) =>
         /\ UNCHANGED <<container, lobbyDom, questionDom, finalDom,
                        currentState, templateCache>>
         /\ UNCHANGED <<players, gameInProgress, lastQuestionContext,
                        responseStats, autoStartState, countdownTimer,
                        intervals, serverClock, socket, outbox>>
         /\ tasks' = [tasks EXCEPT ![t] = NoTask]
         /\ roomError' = [text |-> ErrDisplay, hidden |-> FALSE]]_vars

C2_Witness ==
  /\ roomError = [text |-> ErrDisplay, hidden |-> FALSE]
  /\ currentState = "lobby" /\ container = <<"lobby">>
  /\ last.event = "show_question"
  /\ "question" \notin DOMAIN templateCache
  /\ \A t \in Slots : tasks[t].pc = "idle"

\* C3: the container never holds more than one fragment, and currentState
\* is assigned only by a call whose swap is complete: it changes only in the
\* step that ends the enter animation of a call that has mounted its
\* fragment, and it becomes the screen of that call.
C3_OneFragmentAndStateAfterSwap ==
  /\ [](Len(container) <= 1)
  /\ [][currentState' # currentState =>
          \E t \in Slots :
            /\ tasks[t].pc = "enter"
            /\ tasks[t].state = currentState'
            /\ tasks'[t] = NoTask
            /\ UNCHANGED container]_vars

C3_Witness ==
  /\ currentState = "question" /\ container = <<"question">>
  /\ "lobby" \in DOMAIN templateCache
  /\ last.event = "show_question" /\ ~last.same
  /\ \A t \in Slots : tasks[t].pc = "idle"

\* C4: a call of ensureState that has started is never cancelled by a later
\* one.  Only the call's own steps change it; the response to its fetch,
\* however late, makes it swap; the end of the leave animation mounts its
\* fragment in place of whatever is mounted; the end of its enter animation
\* assigns its screen to currentState, whatever later calls have displayed
\* in between.
C4_StartedCallsAreNotCancelled ==
  [][\A t \in Slots :
       /\ tasks[t].pc # "idle" /\ tasks'[t] # tasks[t] =>
            \/ \E ok \in BOOLEAN : FetchResponded(t, ok)
            \/ LeaveAnimated(t)
            \/ EnterAnimated(t)
       /\ FetchResponded(t, TRUE) =>
            /\ tasks'[t].state = tasks[t].state
            /\ tasks'[t].html = Html(tasks[t].state)
            /\ IF container = <<>>
               THEN tasks'[t].pc = "enter" /\ container' = <<tasks'[t].html>>
               ELSE tasks'[t].pc = "leave" /\ UNCHANGED container
       /\ LeaveAnimated(t) =>
            tasks'[t].pc = "enter" /\ container' = <<tasks[t].html>>
       /\ EnterAnimated(t) => currentState' = tasks[t].state]_vars

\* the call for the question still awaits its fetch while the call for the
\* final screen, made after it, has completed its swap
C4_Witness ==
  /\ last.event = "show_final" /\ last.prev = "show_question"
  /\ currentState = "final" /\ container = <<"final">>
  /\ \E t \in Slots :
       /\ tasks[t].pc = "fetch" /\ tasks[t].state = "question"
       /\ \A u \in Slots \ {t} : tasks[u].pc = "idle"

\* a countdown started by startAutoStartCountdown still has its interval
AutoStartCountdownRunning(s) ==
  /\ s.countdownTimer.timerId # "null"
  /\ s.countdownTimer.element \in {"lobby", "lobby-gone"}

\* the message, the countdown and the cancel control of the mounted lobby
\* are hidden
AutoStartUiHidden(s) ==
  LobbyMounted(s) =>
    /\ s.lobbyDom.msgHidden = "true"
    /\ s.lobbyDom.timerHidden = "true"
    /\ s.lobbyDom.cancelHidden = "true"

\* C5: when show_question is delivered in the task that follows the one that
\* delivered auto_start_scheduled, the status is idle afterwards, no interval
\* of an auto-start countdown is live, and the message, the countdown and
\* the cancel control are hidden.
C5_ScheduledThenQuestionHidesAutoStart ==
  [][Delivered /\ last'.event = "show_question"
       /\ last'.prev = "auto_start_scheduled" =>
         /\ autoStartState'.status = "idle"
         /\ ~AutoStartCountdownRunning(St)'
         /\ intervals' = IF countdownTimer'.timerId = "null" THEN 0 ELSE 1
         /\ AutoStartUiHidden(St)']_vars

C5_Witness ==
  /\ last.fresh /\ last.event = "show_question"
  /\ last.prev = "auto_start_scheduled"
  /\ LobbyMounted(St) /\ lobbyDom.info = "set"
  /\ autoStartState = IdleAutoStart
  /\ intervals = 0 /\ countdownTimer.element = "null"
  /\ lobbyDom.msgHidden = "true" /\ lobbyDom.timerHidden = "true"
  /\ lobbyDom.cancelHidden = "true"

\* C6: a click on the cancel control leaves autoStartState and the running
\* countdown (its interval, its end time, its element and what the element
\* shows) as they were, and sends cancel_auto_start when the socket is
\* open; the status leaves "scheduled" only in a step that delivers
\* auto_start_cancelled, auto_start_triggered, show_question or show_final.
C6_CancelRequestChangesNothing ==
  [][/\ ClickCancelAutoStart =>
          /\ UNCHANGED <<autoStartState, countdownTimer, intervals>>
          /\ lobbyDom'.timerHidden = lobbyDom.timerHidden
          /\ lobbyDom'.timerText = lobbyDom.timerText
          /\ lobbyDom'.msgText = lobbyDom.msgText
          /\ outbox' = IF socket = "OPEN"
                       THEN Append(outbox, "cancel_auto_start")
                       ELSE outbox
     /\ autoStartState.status = "scheduled"
          /\ autoStartState'.status # "scheduled" =>
            /\ Delivered
            /\ last'.event \in {"auto_start_cancelled", "auto_start_triggered",
                                "show_question", "show_final"}]_vars

C6_Witness ==
  /\ outbox = <<"cancel_auto_start">>
  /\ ~last.fresh
  /\ autoStartState.status = "scheduled"
  /\ countdownTimer.timerId = "set" /\ countdownTimer.element = "lobby"
  /\ intervals = 1
  /\ LobbyMounted(St) /\ lobbyDom.timerHidden = "false"

\* the status a delivered event assigns, "" when it assigns none
StatusOf(event) ==
  CASE event = "auto_start_scheduled" -> "scheduled"
    [] event = "auto_start_cancelled" -> "cancelled"
    [] event = "auto_start_triggered" -> "triggered"
    [] event \in {"show_question", "show_final"} -> "idle"
    [] OTHER -> ""

\* C7 (as stated): the status becomes cancelled or triggered only when it was
\* scheduled, and becomes scheduled only when it was idle.
C7_StatusFollowsTheChain ==
  [][autoStartState'.status # autoStartState.status =>
       /\ autoStartState'.status \in {"cancelled", "triggered"}
            => autoStartState.status = "scheduled"
       /\ autoStartState'.status = "scheduled"
            => autoStartState.status = "idle"]_vars

\* C7 (amended): the status changes only in a step that delivers a frame,
\* and the delivered event alone decides it, whatever the status was:
\* auto_start_scheduled makes it scheduled, auto_start_cancelled cancelled,
\* auto_start_triggered triggered, show_question and show_final idle; every
\* other frame leaves it as it was.
C7_StatusFollowsTheEvent ==
  [][/\ autoStartState'.status # autoStartState.status => Delivered
     /\ Delivered =>
          autoStartState'.status =
            IF last'.raw = "object" /\ StatusOf(last'.event) # ""
            THEN StatusOf(last'.event)
            ELSE autoStartState.status]_vars

\* scheduled again right after a cancellation, with no idle in between
C7_Witness ==
  /\ last.fresh /\ last.event = "auto_start_scheduled"
  /\ last.prev = "auto_start_cancelled"
  /\ autoStartState.status = "scheduled"

\* C8: the step that delivers show_question or show_final leaves the
\* auto-start state idle, with scheduledAt, delay and origin null and the
\* message empty, whatever it was before; and in every state whose status is
\* not scheduled, scheduledAt and delay are null.
C8_GameplayResetsAutoStart ==
  /\ [](autoStartState.status # "scheduled" =>
          autoStartState.scheduledAt = Null /\ autoStartState.delay = Null)
  /\ [][Delivered /\ last'.event \in {"show_question", "show_final"} =>
          /\ autoStartState'.status = "idle"
          /\ autoStartState'.scheduledAt = Null
          /\ autoStartState'.delay = Null
          /\ autoStartState'.origin = Null
          /\ autoStartState'.message = NoText]_vars

C8_Witness ==
  /\ last.fresh /\ last.event = "show_final"
  /\ last.prev = "auto_start_scheduled"
  /\ autoStartState = IdleAutoStart

\* C9 (as stated): while the lobby is mounted, the cancel control is
\* disabled whenever the socket is absent or its readyState is not OPEN (the
\* script has not enabled it; what the fragment says is not counted).
C9_CancelDisabledUnlessOpen ==
  LobbyMounted(St) /\ socket # "OPEN" => lobbyDom.cancelDisabled # "false"

\* C9 (amended): while the lobby is mounted and the script has shown the
\* cancel control, the control is disabled whenever the socket is absent,
\* connecting or closed (a hidden control is left enabled, and during the
\* closing handshake, which no listener observes, a shown control keeps the
\* state it had).
C9_ShownCancelDisabledUnlessOpen ==
  LobbyMounted(St) /\ lobbyDom.cancelHidden = "false"
    /\ socket \in {"null", "CONNECTING", "CLOSED"}
    => lobbyDom.cancelDisabled = "true"

\* the socket has closed under a shown control
C9_Witness ==
  /\ LobbyMounted(St) /\ lobbyDom.cancelHidden = "false"
  /\ socket = "CLOSED" /\ lobbyDom.cancelDisabled = "true"
  /\ autoStartState.status = "scheduled"
  /\ last.event = "auto_start_scheduled"

\* C10: the step that delivers a frame that is not JSON, or JSON without a
\* recognised event tag, lets no exception escape and changes nothing of
\* the controller: currentState, the mounted fragment and its elements, the
\* pending calls and the cache, players, gameInProgress, the question
\* context, responseStats, autoStartState, the clock offset, the countdown
\* and its interval, the error banner, the socket and what was sent.
C10_DroppedFramesChangeNothing ==
  [][Delivered /\ (last'.raw # "object" \/ last'.event \notin EventTags) =>
       /\ ~uncaught'
       /\ UNCHANGED <<currentState, container, lobbyDom, questionDom,
                      finalDom, tasks, templateCache>>
       /\ UNCHANGED <<players, gameInProgress, lastQuestionContext,
                      responseStats, autoStartState, serverClock,
                      countdownTimer, intervals, roomError, socket, outbox,
                      prefetch, now>>]_vars

\* a frame that is not JSON was delivered right after an unknown event, on
\* a mounted lobby that shows a player
C10_Witness ==
  /\ last.fresh /\ last.raw = "garbage" /\ last.prev = "bogus"
  /\ ~uncaught
  /\ currentState = "lobby" /\ LobbyMounted(St) /\ lobbyDom.info = "set"

(***************************************************************************)
(* The countdown and the clock.                                            *)
(***************************************************************************)
\* C11: in every reachable state at most one interval is live, and it is the
\* one countdownTimer holds: a question countdown and an auto-start
\* countdown never run side by side, and a start while a countdown runs
\* replaces its interval.
C11_AtMostOneInterval ==
  /\ intervals \in {0, 1}
  /\ intervals = 1 <=> countdownTimer.timerId # "null"

\* show_question was delivered while the question screen was current, before
\* the clock has moved, and the question countdown runs on its one interval
C11_Witness ==
  /\ last.fresh /\ last.event = "show_question" /\ last.same
  /\ now = 0
  /\ countdownTimer.element = "question"
  /\ countdownTimer.timerId # "null"
  /\ countdownTimer.endTime = 1000
  /\ intervals = 1
  /\ questionDom.timerHidden = "false"

\* a countdown is armed: it has an element and an end
Armed ==
  /\ countdownTimer.element \in {"lobby", "question"}
  /\ countdownTimer.endTime # 0

\* the text, the warning state and the visibility of the countdown's element
ArmedEl == TimerEl(St, countdownTimer.element)

\* C12: a callback of the interval of an armed countdown that runs when the
\* synchronized time is at or past the end shows 00:00 with the warning
\* state and cancels the interval, so that no callback runs after it; one
\* that runs before the end shows the seconds left, rounded up, and keeps
\* the interval.  A callback runs only while an interval is live.  Every
\* running countdown stops, unless the local clock has run out (the model's
\* clock is bounded) before the synchronized time has reached the end.
C12_CountdownStopsAtZero ==
  /\ [][IntervalFired =>
          /\ intervals = 1
          /\ Armed /\ now + serverClock.offset >= countdownTimer.endTime =>
               /\ ArmedEl'.text = <<0, 0>>
               /\ ArmedEl'.warning = "true"
               /\ countdownTimer'.timerId = "null"
               /\ intervals' = 0
          /\ Armed /\ now + serverClock.offset < countdownTimer.endTime =>
               /\ ArmedEl'.text =
                    TimerText((countdownTimer.endTime - now
                                 - serverClock.offset + 999) \div 1000)
               /\ countdownTimer'.timerId # "null"
               /\ intervals' = 1]_vars
  /\ (countdownTimer.timerId # "null") ~>
       \/ countdownTimer.timerId = "null"
       \/ /\ now = MaxNow * 1000
          /\ now + serverClock.offset < countdownTimer.endTime

\* a countdown of the question's element has run to its end and was stopped
\* by a callback: the element shows 00:00 in the warning state
C12_Witness ==
  /\ countdownTimer.element = "question"
  /\ countdownTimer.endTime = 1000
  /\ now + serverClock.offset >= 1000
  /\ countdownTimer.timerId = "null"
  /\ intervals = 0
  /\ questionDom.timerText = <<0, 0>>
  /\ questionDom.timerWarn = "true"
  /\ questionDom.timerHidden = "false"

\* the arguments a countdown can be started with: an element, a timestamp
\* that parses, and a number (or numeric string) above zero
WellFormedStart(el, iso, d) ==
  /\ el # "null"
  /\ iso.t = "iso"
  /\ d.t \in {"number", "numstr"} /\ d.v > 0

\* C13: countdownTimer.start with a missing element, a timestamp that does
\* not parse, or a duration that is zero, negative or not a number raises
\* no error and leaves the timer cleared: no interval (a running one is
\* cancelled), endTime 0, no element; the element it was given is hidden
\* and shows 00:00 without the warning state.
C13_MalformedStartClears ==
  [][\A el \in TimerElements, iso \in StartIsos, d \in Durations :
       ~WellFormedStart(el, iso, d) /\ TimerStarted(el, iso, d) =>
         /\ ~uncaught'
         /\ countdownTimer' =
              [timerId |-> "null", endTime |-> 0, element |-> "null"]
         /\ intervals' = 0
         /\ el # "null" =>
              TimerEl(St, el)' =
                [hidden |-> "true", text |-> <<0, 0>>, warning |-> "false"]]_vars

\* the timer is cleared and the question's element hidden at 00:00, while
\* the lobby's element still shows the countdown that was running on it
C13_Witness ==
  /\ countdownTimer = [timerId |-> "null", endTime |-> 0, element |-> "null"]
  /\ intervals = 0
  /\ ~uncaught
  /\ questionDom.timerHidden = "true"
  /\ questionDom.timerText = <<0, 0>>
  /\ questionDom.timerWarn = "false"
  /\ lobbyDom.timerHidden = "false"
  /\ lobbyDom.timerText = <<0, 2>>

\* C14: serverClock.sync with a missing, empty or unparseable timestamp
\* leaves the offset unchanged; with a timestamp that parses it sets the
\* offset to the timestamp minus the local time, whatever the offset was.
\* Nothing else changes the offset, so it is the one of the last valid sync,
\* and the countdown is rendered against the local time plus that offset.
C14_OffsetIsLastValidSync ==
  [][/\ \A iso \in SyncIsos :
          ClockSynced(iso) =>
            serverClock'.offset =
              IF iso.t = "iso" THEN iso.v - now ELSE serverClock.offset
     /\ serverClock'.offset # serverClock.offset =>
          \E iso \in SyncIsos : iso.t = "iso" /\ ClockSynced(iso)
     /\ IntervalFired /\ Armed =>
          ArmedEl'.text =
            LET remaining == countdownTimer.endTime
                               - (now + serverClock.offset)
            IN IF remaining <= 0 THEN <<0, 0>>
               ELSE TimerText((remaining + 999) \div 1000)]_vars

\* a sync at the local time 1 s with the server time 0 s has set the
\* offset, and a countdown that ends at 2 s, rendered after it, shows two
\* seconds
C14_Witness ==
  /\ now = 1000
  /\ serverClock.offset = -1000
  /\ countdownTimer.timerId # "null"
  /\ countdownTimer.endTime = 2000
  /\ countdownTimer.element = "lobby"
  /\ lobbyDom.timerText = <<0, 2>>

(***************************************************************************)
(* The response-time statistics.                                           *)
(***************************************************************************)
\* the question number of a payload, 0 when it has none
QuestionNumber(payload) ==
  IF payload.question_number.t = "number" THEN payload.question_number.v
  ELSE 0

\* the players of a results list whose answer carries a time
Timed(results) ==
  {results[i].player :
     i \in {j \in 1..Len(results) : results[j].response_time.t = "number"}}

\* the players the statistics have an entry for
Recorded(stats) == {stats[i].player : i \in 1..Len(stats)}

\* C15: the step that handles show_question empties the statistics when the
\* payload's question number is at most 1, a missing number counting as 0,
\* and leaves them as they are when it is above 1.
C15_FirstQuestionResetsStats ==
  [][\A f \in QuizFrames :
       f.event = "show_question" /\ Receive(f, MaxFrames) =>
         responseStats' = IF QuestionNumber(f.payload) <= 1
                          THEN <<>> ELSE responseStats]_vars

\* show_question without a number was delivered right after show_results had
\* recorded times: the statistics are empty, and the call for the question
\* is pending
C15_Witness ==
  /\ last.fresh /\ last.event = "show_question" /\ last.prev = "show_results"
  /\ responseStats = <<>>
  /\ \E t \in Slots :
       /\ tasks[t].pc # "idle"
       /\ tasks[t].data.question = 3
       /\ tasks[t].data.question_number = Undef
  /\ \E t \in Slots :
       /\ tasks[t].pc # "idle"
       /\ tasks[t].data.has_results
       /\ tasks[t].data.results_fastest_time = Num(2000000)

\* C16 as stated: a show_results handled while gameInProgress is false
\* leaves the statistics unchanged.
C16_StatsOnlyWhileInProgress ==
  [][Delivered /\ last'.event = "show_results" /\ ~gameInProgress =>
       UNCHANGED responseStats]_vars

\* C16: the statistics change only when show_results or show_question is
\* handled.  show_results records the times of its results whatever
\* gameInProgress is: afterwards every player of the list with a time has an
\* entry, and no other player gains one.  show_question with a number of at
\* most 1 or without a number leaves them empty, so that they are empty when
\* a quiz starts with its first question; show_final keeps them.
C16_StatsFollowResults ==
  [][/\ responseStats' # responseStats =>
          Delivered /\ last'.event \in {"show_results", "show_question"}
     /\ \A f \in QuizFrames :
          Receive(f, MaxFrames) =>
            /\ f.event = "show_results" =>
                 /\ Recorded(responseStats') =
                      Recorded(responseStats) \cup Timed(f.payload.results)
                 /\ \A i \in 1..Len(responseStats') :
                      responseStats'[i].player \in Timed(f.payload.results) =>
                        LET k == StatsIndex(responseStats,
                                            responseStats'[i].player)
                        IN responseStats'[i].count =
                             1 + IF k = 0 THEN 0 ELSE responseStats[k].count
            /\ f.event = "show_question" /\ QuestionNumber(f.payload) <= 1 =>
                 responseStats' = <<>>
            /\ f.event = "show_final" => UNCHANGED responseStats]_vars

\* show_results was delivered right after show_final, with no game in
\* progress, and the times of B have been recorded
C16_Witness ==
  /\ last.fresh /\ last.event = "show_results" /\ last.prev = "show_final"
  /\ ~gameInProgress
  /\ Recorded(responseStats) = {"B"}
  /\ responseStats[1].count = 1
  /\ responseStats[1].best = Num(2000000)

\* the least and the greatest of a non-empty set of integers
Least(S) == CHOOSE x \in S : \A y \in S : x <= y
Greatest(S) == CHOOSE x \in S : \A y \in S : x >= y

\* the entry of a recorded player
StatsOf(stats, p) == stats[CHOOSE i \in 1..Len(stats) : stats[i].player = p]

\* the time of the one timed answer of p in the list
TimeOf(results, p) ==
  results[CHOOSE i \in 1..Len(results) :
            /\ results[i].player = p
            /\ results[i].response_time.t = "number"].response_time.v

\* the statistics prepareResultsPayload leaves, called in this state
StatsAfter(results) ==
  PrepareResultsPayload(responseStats, ResultsPayload(results)).stats

\* C17: every entry of the statistics has a count of at least 1, a best and
\* a worst time with best <= worst, and count*best <= total <= count*worst
\* (with one time total = best = worst, with two total = best + worst), and
\* no player has two entries.  In every reachable state and for every
\* results list, prepareResultsPayload adds, for every player whose answer
\* has a time, 1 to the count and the time to the total and takes the time
\* into best and worst, creating the entry at the first time; the entries
\* of the other players stay, and a player without a timed answer gains
\* none.
C17_StatsAreCountSumMinMax ==
  /\ \A i \in 1..Len(responseStats) :
       LET e == responseStats[i]
       IN /\ e.count >= 1
          /\ e.best.t = "number" /\ e.worst.t = "number"
          /\ e.best.v <= e.worst.v
          /\ e.count * e.best.v <= e.total
          /\ e.total <= e.count * e.worst.v
          /\ e.count = 1 => e.total = e.best.v /\ e.best = e.worst
          /\ e.count = 2 => e.total = e.best.v + e.worst.v
          /\ \A j \in 1..Len(responseStats) :
               responseStats[j].player = e.player => j = i
  /\ \A results \in AnswerLists :
       LET after == StatsAfter(results)
       IN /\ Recorded(after) = Recorded(responseStats) \cup Timed(results)
          /\ \A p \in Recorded(after) :
               LET new == StatsOf(after, p)
               IN IF p \notin Timed(results)
                  THEN new = StatsOf(responseStats, p)
                  ELSE LET t == TimeOf(results, p)
                       IN IF p \notin Recorded(responseStats)
                          THEN new = [player |-> p, count |-> 1, total |-> t,
                                      best |-> Num(t), worst |-> Num(t)]
                          ELSE LET old == StatsOf(responseStats, p)
                               IN new =
                                    [player |-> p,
                                     count |-> old.count + 1,
                                     total |-> old.total + t,
                                     best |-> Num(Least({old.best.v, t})),
                                     worst |->
                                       Num(Greatest({old.worst.v, t}))]

\* after the answers A 2.0, B 2.0, C 3.0 and then A 1.5: A has two times,
\* B and C one each
C17_Witness ==
  /\ Recorded(responseStats) = {"A", "B", "C"}
  /\ StatsOf(responseStats, "A") =
       [player |-> "A", count |-> 2, total |-> 3500000,
        best |-> Num(1500000), worst |-> Num(2000000)]
  /\ StatsOf(responseStats, "B") =
       [player |-> "B", count |-> 1, total |-> 2000000,
        best |-> Num(2000000), worst |-> Num(2000000)]
  /\ StatsOf(responseStats, "C").best = Num(3000000)

\* the payload prepareResultsPayload returns, called in this state
PayloadAfter(results) ==
  PrepareResultsPayload(responseStats, ResultsPayload(results)).data

\* the times of the answers of a list that have one
TimesOf(results) ==
  {results[i].response_time.v :
     i \in {j \in 1..Len(results) : results[j].response_time.t = "number"}}

\* the answer has a time, and it is within the tolerance of v
Ties(item, v) ==
  /\ item.response_time.t = "number"
  /\ item.response_time.v - v <= 1
  /\ v - item.response_time.v <= 1

\* no two different times of the set are within the tolerance of each other
Separated(S) == \A x \in S, y \in S : x = y \/ x - y > 1 \/ y - x > 1

Bests == {responseStats[i].best.v : i \in 1..Len(responseStats)}

\* the players whose best time is within the tolerance of v
TiedAt(v) ==
  {responseStats[i].player :
     i \in {j \in 1..Len(responseStats) :
              /\ responseStats[j].best.v - v <= 1
              /\ v - responseStats[j].best.v <= 1}}

\* the responders the summary names: fastest.player and fastest.players
Named(fastest) ==
  {RecordPlayers(fastest)[k] : k \in 1..Len(RecordPlayers(fastest))}

\* C19 as stated: the fastest value of the summary is the least best time of
\* the recorded players, and the responders it names are the players whose
\* best time is within the tolerance of it, in whatever order the players
\* were first recorded; it is null while nothing is recorded.
C19_SummaryFastestIsMinimum ==
  LET fastest == BuildTimingSummary(responseStats).fastest
  IN IF responseStats = <<>>
     THEN fastest.value = Null
     ELSE /\ fastest.value = Num(Least(Bests))
          /\ Named(fastest) = TiedAt(Least(Bests))

EntryOf(stats, p) ==
  IF p \in Recorded(stats) THEN <<StatsOf(stats, p)>> ELSE <<>>

\* C21 as stated: an answer whose response_time is absent, null or NaN
\* leaves the entry of its player as it was, is not the fastest time of the
\* question, and is shown with response_time null, the dash and no flag.
C21_MissingTimeIsNotRecorded ==
  \A results \in MissingLists :
    LET out == PrepareResultsPayload(responseStats, ResultsPayload(results))
    IN \A i \in 1..Len(results) :
         results[i].response_time \in {Undef, Null, NaNv} =>
           /\ EntryOf(out.stats, results[i].player)
                = EntryOf(responseStats, results[i].player)
           /\ out.data.results[i].response_time = Null
           /\ out.data.results[i].response_time_formatted = Dash
           /\ ~out.data.results[i].is_fastest
           /\ out.data.results_fastest_time \in
                {Null} \cup {results[j].response_time :
                               j \in {k \in 1..Len(results) :
                                        results[k].response_time.t = "number"}}

\* the position in the input of the entry a row shows
InputIndex(row) == CHOOSE k \in 1..Len(LbNames) : LbNames[k] = row.name

\* the entry carries a numeric total response time
HasTime(entry) == entry.total_response_time.t = "number"

\* entry a at input position i may stand before entry b at input position j
\* in the leaderboard
MayPrecede(a, i, b, j) ==
  /\ a.score >= b.score
  /\ a.score = b.score =>
       /\ HasTime(b) => HasTime(a)
       /\ HasTime(a) /\ HasTime(b) =>
            a.total_response_time.v <= b.total_response_time.v
       /\ ~HasTime(a) /\ ~HasTime(b) => i < j

\* C22 as stated: for every input list the rendered rows show every entry
\* once, by score descending; among equal scores the entries with a numeric
\* total response time stand before those without one (absent, null or not
\* a number), the timed ones by ascending time, the others in input order.
C22_LeaderboardOrder ==
  \A entries \in EntryLists :
    LET rows == LeaderboardRender(finalDom.rows, entries)
    IN /\ Len(rows) = Len(entries)
       /\ \A k \in 1..Len(entries) : \E r \in 1..Len(rows) :
            rows[r].name = entries[k].player
       /\ \A r1 \in 1..Len(rows), r2 \in 1..Len(rows) :
            r1 < r2 =>
              MayPrecede(entries[InputIndex(rows[r1])], InputIndex(rows[r1]),
                         entries[InputIndex(rows[r2])], InputIndex(rows[r2]))

\* the entries the comparison is checked on
LbEntries == {Entry("A", sc, t) : sc \in {0, 1, 2}, t \in LbTimes}

Sign(n) == IF n < 0 THEN -1 ELSE IF n > 0 THEN 1 ELSE 0

PointsForm(score) ==
  LET n == (IF score < 0 THEN -score ELSE score) % 100
      tens == n \div 10
      units == n - 10 * tens
  IN IF tens = 1 /\ units >= 1 THEN "ochkov"
     ELSE IF units = 1 THEN "ochko"
     ELSE IF units \in {2, 3, 4} THEN "ochka"
     ELSE "ochkov"

\* C24: for every integer score, negative ones and 0 included, formatPoints
\* gives the score followed by the form of the rule: ochkov when the last
\* two digits are 11 to 19, else ochko for a last digit 1, ochka for 2 to 4
\* and ochkov otherwise; so 1 and 21 take ochko, 2 ochka, 5 and 11 ochkov.
\* Every row of the list shows the points of its entry in this form.
C24_PointsFollowTheRule ==
  /\ \A score \in -MaxScore..MaxScore :
       FormatPoints(Num(score)) = <<score, PointsForm(score)>>
  /\ FormatPoints(Num(1)) = <<1, "ochko">>
  /\ FormatPoints(Num(21)) = <<21, "ochko">>
  /\ FormatPoints(Num(2)) = <<2, "ochka">>
  /\ FormatPoints(Num(5)) = <<5, "ochkov">>
  /\ FormatPoints(Num(11)) = <<11, "ochkov">>
  /\ \A r \in 1..Len(finalDom.rows) :
       finalDom.rows[r].points
         = <<finalDom.rows[r].points[1], PointsForm(finalDom.rows[r].points[1])>>
  /\ \A entries \in EntryLists :
       LET rows == LeaderboardRender(finalDom.rows, entries)
       IN \A r \in 1..Len(rows) :
            rows[r].points
              = <<entries[InputIndex(rows[r])].score,
                  PointsForm(entries[InputIndex(rows[r])].score)>>

\* the list shows the one entry of score -111
C24_Witness ==
  /\ Len(finalDom.rows) = 1
  /\ finalDom.rows[1].points = <<-111, "ochkov">>

\* the number of decimals the rule gives a time in millionths of a second
Decimals(v) == IF v >= 100000000 THEN 0 ELSE 1

\* v / 10^6 rounded to d decimals is n / 10^d: n is within half a unit of
\* the last decimal
RoundsTo(v, n, d) ==
  LET unit == IF d = 0 THEN 1000000 ELSE 100000
  IN 2 * (n * unit - v) <= unit /\ 2 * (v - n * unit) <= unit

\* the formatted text f shows the value as the rule asks
ShownByRule(value, f) ==
  IF value.t = "number"
  THEN /\ f.k = "seconds"
       /\ f.d = Decimals(value.v)
       /\ RoundsTo(value.v, f.v, f.d)
  ELSE f = Dash

\* C27 as stated: formatTime of the leaderboard and formatSeconds of the
\* room called with emptyAsDash show a number of at least 100 with no
\* decimals and a smaller number with one, and show an absent value, null
\* and NaN as the dash.
C27_SharedSecondsFormat ==
  \A value \in LbTimes \cup {NaNv, Num(0), Num(99949999), Num(99950000),
                             Num(99999999), Num(100000000)} :
    value.t \in {"number", "undefined", "null", "nan"} =>
      /\ ShownByRule(value, FormatSeconds(value, TRUE))
      /\ ShownByRule(value, FormatTime(value))
      /\ LeaderboardRender(finalDom.rows, <<Entry("A", 1, value)>>)[1].time
           = FormatSeconds(value, TRUE)

\* the banner is shown with a text
BannerShown == ~roomError.hidden /\ roomError.text # ""

\* the socket is created, or its readyState moves on
SocketEdges ==
  {<<"null", "CONNECTING">>, <<"CONNECTING", "OPEN">>,
   <<"CONNECTING", "CLOSED">>, <<"OPEN", "CLOSING">>, <<"OPEN", "CLOSED">>,
   <<"CLOSING", "CLOSED">>}

\* C25: once the socket has reported close or error it stays closed and the
\* banner is shown with a text in every state from then on; the socket is
\* created once, when the prefetch settles, whether its fetches succeeded or
\* not, and no step creates another or reopens it.
C25_BannerStaysAndNoReconnect ==
  /\ [](socket = "CLOSED" => BannerShown)
  /\ [](prefetch = {} => socket # "null")
  /\ [][/\ socket' # socket => <<socket, socket'>> \in SocketEdges
        /\ socket' = "CONNECTING" /\ socket = "null" =>
             /\ prefetch' # prefetch
             /\ \/ prefetch' = {}
                \/ \E x \in prefetch \ prefetch' :
                     x \notin DOMAIN templateCache']_vars

\* a fetch of the prefetch failed and another is still pending, the
\* connection was closed, and the host clicked the start control since: the
\* banner shows the click's text
C25_Witness ==
  /\ socket = "CLOSED"
  /\ prefetch # {}
  /\ roomError = [text |-> ErrNoConnection, hidden |-> FALSE]

\* the step sends the frame on the socket
Sends(frame) == outbox' = Append(outbox, frame)

\* C26 as stated: the step that sends start_game leaves the start control
\* disabled, and the step that sends cancel_auto_start leaves the cancel
\* control disabled.
C26_SendDisablesControl ==
  [][/\ Sends("start_game") => lobbyDom'.startDisabled = "true"
     /\ Sends("cancel_auto_start") => lobbyDom'.cancelDisabled = "true"]_vars

\* C26: a frame is sent only by a click on its control with the socket
\* open.  The step that sends start_game sets gameInProgress and leaves the
\* start control disabled, with no frame delivered in between.  The step
\* that sends cancel_auto_start hides the banner and changes nothing else:
\* the cancel control stays shown and enabled.
C26_StartDisabledCancelKept ==
  [][/\ outbox' # outbox =>
          /\ socket = "OPEN" /\ received' = received
          /\ Sends("start_game") \/ Sends("cancel_auto_start")
     /\ Sends("start_game") =>
          /\ lobbyDom.startDisabled # "true"
          /\ lobbyDom'.startDisabled = "true"
          /\ gameInProgress'
          /\ roomError'.hidden
     /\ Sends("cancel_auto_start") =>
          /\ lobbyDom' = lobbyDom
          /\ lobbyDom'.cancelDisabled # "true"
          /\ lobbyDom'.cancelHidden # "true"
          /\ autoStartState' = autoStartState
          /\ gameInProgress' = gameInProgress
          /\ roomError'.hidden]_vars

\* the cancellation request is sent and the control is still shown and
\* enabled while the start is scheduled
C26_Witness ==
  /\ outbox = <<"cancel_auto_start">>
  /\ socket = "OPEN"
  /\ Mounted(St, "lobby")
  /\ autoStartState.status = "scheduled"
  /\ lobbyDom.cancelDisabled = "false"
  /\ lobbyDom.cancelHidden = "false"

\* C28: the step that handles player_joined sets the roster to the players
\* of the payload, the empty list when it has none, and leaves gameInProgress
\* alone.  With the lobby current its handler runs in the same step and the
\* mounted lobby lists the new roster; with another screen current a call
\* for the lobby carrying the new roster is started, whatever gameInProgress
\* is.  The step that ends a call for the lobby makes the lobby the current
\* screen and runs its handler with the roster the call carries.
C28_PlayerJoinedTargetsLobby ==
  [][/\ \A f \in RosterFrames :
          f.event = "player_joined" /\ Receive(f, MaxFrames) =>
            /\ players' = f.payload.players
            /\ gameInProgress' = gameInProgress
            /\ IF currentState = "lobby"
               THEN /\ currentState' = "lobby"
                    /\ tasks' = tasks
                    /\ Mounted(St, "lobby") =>
                         lobbyDom'.playersEl = f.payload.players
               ELSE \E t \in Slots :
                      /\ tasks[t].pc = "idle"
                      /\ tasks'[t].pc \in {"fetch", "leave", "enter"}
                      /\ tasks'[t].state = "lobby"
                      /\ tasks'[t].data.players = f.payload.players
     /\ \A t \in Slots :
          /\ tasks[t].pc = "enter" /\ tasks[t].state = "lobby"
          /\ tasks'[t].pc = "idle"
          => /\ currentState' = "lobby"
             /\ Mounted(St, "lobby") =>
                  lobbyDom'.playersEl = tasks[t].data.players]_vars

\* a question was shown with the game in progress, player_joined arrived,
\* and the lobby is back, listing the new roster
C28_Witness ==
  /\ currentState = "lobby"
  /\ Mounted(St, "lobby")
  /\ lastQuestionContext # NoContext
  /\ gameInProgress
  /\ players = <<"A">>
  /\ lobbyDom.playersEl = <<"A">>
  /\ last.event = "player_joined"

\* C29: a click on the start control or on the cancel control while the
\* socket is not OPEN sends nothing, shows the banner with the text of the
\* missing connection, and leaves gameInProgress, autoStartState and the
\* lobby's controls as they were.
C29_ClickWithoutConnection ==
  [][socket # "OPEN" /\ (ClickStartGame \/ ClickCancelAutoStart) =>
       /\ outbox' = outbox
       /\ roomError' = [text |-> ErrNoConnection, hidden |-> FALSE]
       /\ gameInProgress' = gameInProgress
       /\ autoStartState' = autoStartState
       /\ lobbyDom' = lobbyDom
       /\ socket' = socket]_vars

\* the roster is not empty, the socket is closed, and a click on the
\* enabled start control has shown the banner: nothing was sent and the
\* game is not in progress
C29_Witness ==
  /\ socket = "CLOSED"
  /\ Mounted(St, "lobby")
  /\ players # <<>>
  /\ roomError = [text |-> ErrNoConnection, hidden |-> FALSE]
  /\ outbox = <<>>
  /\ ~gameInProgress
  /\ lobbyDom.startDisabled = "false"

\* the step delivers a frame with this event tag
Delivers(event) ==
  /\ received' = received + 1
  /\ last'.raw = "object"
  /\ last'.event = event

\* C30: gameInProgress becomes true only in the step that sends start_game
\* or handles show_question, and both set it; it becomes false only in the
\* step that handles show_final.  The steps that handle the server's error
\* event or auto_start_cancelled leave it as it is.  Every step that changes
\* the start control of the mounted lobby leaves it disabled exactly when
\* gameInProgress holds or the roster is empty, so a control disabled by
\* start_game stays disabled through those events.
C30_GameInProgressFlag ==
  [][/\ gameInProgress' /\ ~gameInProgress =>
          Sends("start_game") \/ Delivers("show_question")
     /\ Sends("start_game") \/ Delivers("show_question") => gameInProgress'
     /\ gameInProgress /\ ~gameInProgress' => Delivers("show_final")
     /\ Delivers("show_final") => ~gameInProgress'
     /\ Delivers("error") \/ Delivers("auto_start_cancelled") =>
          /\ gameInProgress' = gameInProgress
          /\ gameInProgress /\ Mounted(St, "lobby")
               /\ lobbyDom.startDisabled = "true"
             => lobbyDom'.startDisabled = "true"
     /\ lobbyDom'.startDisabled # lobbyDom.startDisabled
          /\ lobbyDom'.startDisabled # "tmpl"
        => lobbyDom'.startDisabled
             = B(gameInProgress' \/ players' = <<>>)]_vars

\* start_game was sent, auto_start_cancelled arrived and the lobby was
\* rendered with its message: the game is in progress, the start control
\* disabled
C30_Witness ==
  /\ outbox = <<"start_game">>
  /\ last.event = "auto_start_cancelled"
  /\ last.fresh
  /\ autoStartState.status = "cancelled"
  /\ Mounted(St, "lobby")
  /\ players # <<>>
  /\ gameInProgress
  /\ lobbyDom.startDisabled = "true"
  /\ lobbyDom.msgHidden = "false"

\* C31 as stated: while an interval of a countdown on the lobby's countdown
\* element is live, the status is scheduled, and every step that takes the
\* status from scheduled to cancelled, triggered or idle leaves no such
\* interval.
C31_LobbyCountdownOnlyWhileScheduled ==
  /\ [](AutoStartCountdownRunning(St) => autoStartState.status = "scheduled")
  /\ [][autoStartState.status = "scheduled"
          /\ autoStartState'.status # "scheduled"
        => ~(countdownTimer'.timerId # "null"
             /\ countdownTimer'.element \in {"lobby", "lobby-gone"})]_vars

\* an interval of a countdown started on the timer of the question screen is
\* live
QuestionCountdownLive ==
  /\ countdownTimer.timerId # "null"
  /\ countdownTimer.element \in {"question", "question-gone"}

QuestionCountdownLiveNext ==
  /\ countdownTimer'.timerId # "null"
  /\ countdownTimer'.element \in {"question", "question-gone"}

ScreenEvents == {"show_question", "show_results", "show_final",
                 "player_joined"}

AutoStartEvents == {"auto_start_scheduled", "auto_start_cancelled",
                    "auto_start_triggered"}

\* the step is part of the handling of a screen event: its delivery, or a
\* step of the transition it started
HandlesScreenEvent ==
  \/ \E e \in ScreenEvents : Delivers(e)
  \/ tasks' # tasks

\* C32 as stated: a live question countdown stops only in a step that finds
\* it at zero or that belongs to the handling of show_question, show_results,
\* show_final or player_joined, and a step that delivers auto_start_scheduled,
\* auto_start_cancelled or auto_start_triggered while the question screen is
\* mounted leaves it live.
C32_QuestionCountdownSurvivesAutoStart ==
  /\ [][QuestionCountdownLive /\ ~QuestionCountdownLiveNext
          => \/ countdownTimer.endTime - ServerClockNow(St) <= 0
             \/ HandlesScreenEvent]_vars
  /\ [][(/\ QuestionCountdownLive
         /\ Mounted(St, "question")
         /\ \E e \in AutoStartEvents : Delivers(e))
        => QuestionCountdownLiveNext]_vars

(***************************************************************************)
(* The transitions when every fragment is cached by the prefetch           *)
(* (room.js 574-586, 1073-1079): no call of fetchTemplate awaits a         *)
(* response once the socket is created.                                    *)
(***************************************************************************)
ScreenFrames ==
  {f \in Frames : f.raw = "object" /\ f.event \in ScreenEvents}

CachedNext ==
  \/ \E x \in Screens : Prefetched(x, TRUE)
  \/ \E frame \in ScreenFrames : Receive(frame, MaxFrames)
  \/ SocketOpened
  \/ SocketClosing
  \/ \E failed \in BOOLEAN : SocketClosed(failed)
  \/ ClickStartGame
  \/ ClickCancelAutoStart
  \/ \E t \in Slots : LeaveAnimated(t)
  \/ \E t \in Slots : EnterAnimated(t)
  \/ IntervalFired
  \/ Tick

CachedSpec == Init /\ [][CachedNext]_vars

\* the screen the most recently delivered frame asked for
LastTarget ==
  CASE last.event = "player_joined" -> "lobby"
    [] last.event \in {"show_question", "show_results"} -> "question"
    [] last.event = "show_final" -> "final"
    [] OTHER -> NoScreen

\* frames were delivered and no call of ensureState is pending
Settled ==
  /\ received > 0
  /\ \A t \in Slots : tasks[t].pc = "idle"

\* C33 as stated, every fragment being cached: once the frames are delivered
\* and no transition is pending, currentState is the mounted screen and the
\* screen the last frame asked for; and a frame whose handler runs in the
\* step that delivers it finds no pending call for the same screen, whose
\* handler, of an earlier event, would run after it.
C33_SettledOnLastEventInOrder ==
  /\ [](Settled => /\ currentState = LastTarget
                   /\ container = <<LastTarget>>)
  /\ [][\A e \in ScreenEvents :
          Delivers(e) /\ last'.same
            => \A t \in Slots :
                 tasks[t].pc # "idle" => tasks[t].state # currentState]_vars

(***************************************************************************)
(* fetchTemplate alone (room.js 574-586; the same function in part_000     *)
(* 153-165).  The text of a response is an input: the server may answer    *)
(* two requests for one fragment with different texts.  A call that awaits *)
(* its response is a task at "fetch"; the three calls of the               *)
(* initialisation are the set prefetch.                                    *)
(***************************************************************************)
ResponseTexts(state) == {Html(state), Html(state) \o ", revised"}

\* fetchTemplate storing the text whatever the status of the response
TemplateStoreAnyStatus(s, state, ok, html) ==
  [s EXCEPT !.templateCache = (state :> html) @@ @]

\* fetchTemplate after the response: throw when it is not ok, else
\* templateCache.set(state, html)
TemplateStore(s, state, ok, html) ==
  IF ok
  THEN [s EXCEPT !.templateCache = (state :> html) @@ @]
  ELSE s

\* fetchTemplate to its first suspension: the cached text is returned and
\* nothing is requested, or a request is sent
FetchTemplateCall(s, state) ==
  IF state \in DOMAIN s.templateCache
  THEN s
  ELSE [s EXCEPT !.tasks[FreeSlot(s)] =
                   [pc |-> "fetch", state |-> state, data |-> EmptyPayload,
                    html |-> ""]]

TemplateRequested(state) ==
  /\ HasFreeSlot(St)
  /\ Commit(FetchTemplateCall(St, state))
  /\ UNCHANGED <<received, last>>

TemplateResponded(t, ok, html) ==
  /\ tasks[t].pc = "fetch"
  /\ html \in ResponseTexts(tasks[t].state)
  /\ Commit(TemplateStore([St EXCEPT !.tasks[t] = NoTask], tasks[t].state,
                          ok, html))
  /\ UNCHANGED <<received, last>>

TemplatePrefetched(x, ok, html) ==
  /\ x \in prefetch
  /\ html \in ResponseTexts(x)
  /\ Commit(TemplateStore([St EXCEPT !.prefetch = @ \ {x}], x, ok, html))
  /\ UNCHANGED <<received, last>>

AllTexts == UNION {ResponseTexts(x) : x \in Screens}

CacheNext ==
  \/ \E state \in Screens : TemplateRequested(state)
  \/ \E t \in Slots, ok \in BOOLEAN, html \in AllTexts :
       TemplateResponded(t, ok, html)
  \/ \E x \in Screens, ok \in BOOLEAN, html \in AllTexts :
       TemplatePrefetched(x, ok, html)

CacheSpec == Init /\ [][CacheNext]_vars

\* no entry of the cache is removed
CacheGrows == DOMAIN templateCache \subseteq DOMAIN templateCache'

\* no request is sent for a screen that is cached
CachedIsNotFetched ==
  \A t \in Slots :
    tasks[t].pc # "fetch" /\ tasks'[t].pc = "fetch"
      => tasks'[t].state \notin DOMAIN templateCache

\* a response that is not ok leaves the cache as it was
FailureStoresNothing ==
  /\ \A t \in Slots, html \in AllTexts :
       TemplateResponded(t, FALSE, html) => UNCHANGED templateCache
  /\ \A x \in Screens, html \in AllTexts :
       TemplatePrefetched(x, FALSE, html) => UNCHANGED templateCache

\* a call for a screen that is not cached sends a request
UncachedIsFetched ==
  \A x \in Screens :
    TemplateRequested(x) /\ x \notin DOMAIN templateCache
      => \E t \in Slots : /\ tasks[t].pc = "idle"
                          /\ tasks'[t].pc = "fetch"
                          /\ tasks'[t].state = x

\* the step ends a request for x that was awaiting its response
EndsRequest(x) ==
  \/ x \in prefetch /\ x \notin prefetch'
  \/ \E t \in Slots : /\ tasks[t].pc = "fetch" /\ tasks[t].state = x
                      /\ tasks'[t] = NoTask

\* C34, amended: no entry of the cache is removed; no request is sent for a
\* cached screen; a failed response stores nothing, and a call for a screen
\* that is not cached sends a request.  An entry can change: the response to
\* a request that was already awaited when the entry was stored replaces
\* it, and only such a response does.
C34_CacheGrowsAndOnlyLateResponsesReplace ==
  /\ [][CacheGrows]_vars
  /\ [][CachedIsNotFetched]_vars
  /\ [][FailureStoresNothing]_vars
  /\ [][UncachedIsFetched]_vars
  /\ [][\A x \in DOMAIN templateCache :
          templateCache'[x] # templateCache[x] => EndsRequest(x)]_vars

\* C34 as stated: the cache only grows and no entry ever changes; no
\* request is sent for a cached screen; a failed response stores nothing and
\* a call for a screen that is not cached sends a request.
C34_CacheGrowsAndEntriesNeverChange ==
  /\ [][CacheGrows]_vars
  /\ [][\A x \in DOMAIN templateCache :
          templateCache'[x] = templateCache[x]]_vars
  /\ [][CachedIsNotFetched]_vars
  /\ [][FailureStoresNothing]_vars
  /\ [][UncachedIsFetched]_vars

\* the lobby is cached and nothing awaits it; the prefetch of the question
\* has ended and stored nothing, and a later call awaits a new response
C34_Witness ==
  /\ "lobby" \in DOMAIN templateCache
  /\ "lobby" \notin prefetch
  /\ \A t \in Slots : tasks[t].state # "lobby"
  /\ "question" \notin DOMAIN templateCache
  /\ "question" \notin prefetch
  /\ \E t \in Slots : tasks[t].pc = "fetch" /\ tasks[t].state = "question"

=============================================================================
